---------------------------- MODULE Spec2Model ----------------------------
(***************************************************************************)
(* A model of the CTAP2 large-blob array client of libfido2                *)
(* (src/src/largeblob.c): the element codec, the sealer, the array codec,  *)
(* the fragment fetcher, lookup, the mutators, the fragment writer and the *)
(* public operations get / put / remove, run against an authenticator that *)
(* stores the fragments it is sent.                                        *)
(*                                                                         *)
(* Bytes are integers 0..255 and buffers are sequences of bytes.  The      *)
(* collaborators that live outside largeblob.c (SHA-256, AES-256-GCM, the  *)
(* compressor, the CBOR codec, the transport, the PIN/UV stack and the     *)
(* authenticator itself) are modelled by their contracts.                  *)
(***************************************************************************)
EXTENDS Integers, Sequences, FiniteSets, TLC

(***************************************************************************)
(* Program constants.                                                      *)
(***************************************************************************)
LARGEBLOB_DIGEST_LENGTH == 16
LARGEBLOB_NONCE_LENGTH == 12
LARGEBLOB_TAG_LENGTH == 16
\* <openssl/sha.h>; used by largeblob_array_load and prepare_hmac.
SHA256_DIGEST_LENGTH == 32
\* fido/param.h; the buffer cap used by max_fragment_length.
FIDO_MAXMSG == 2048
\* the envelope reserve subtracted by max_fragment_length.
FRAG_RESERVE == 64
\* the only key length the public operations accept.
KEY_LENGTH == 32

FIDO_OK == "FIDO_OK"
FIDO_ERR_TX == "FIDO_ERR_TX"
FIDO_ERR_RX == "FIDO_ERR_RX"
FIDO_ERR_INTERNAL == "FIDO_ERR_INTERNAL"
FIDO_ERR_INVALID_ARGUMENT == "FIDO_ERR_INVALID_ARGUMENT"
FIDO_ERR_NOTFOUND == "FIDO_ERR_NOTFOUND"
FIDO_ERR_PIN_AUTH_INVALID == "FIDO_ERR_PIN_AUTH_INVALID"
FIDO_ERR_PIN_INVALID == "FIDO_ERR_PIN_INVALID"

(***************************************************************************)
(* Byte-buffer helpers.                                                    *)
(***************************************************************************)
Min(a, b) == IF a < b THEN a ELSE b

\* bytes [from, from+n) of s, 0-based offset, clipped to the buffer
Slice(s, from, n) ==
    LET hi == Min(Len(s), from + n)
    IN  IF from >= hi THEN <<>> ELSE [i \in 1..(hi - from) |-> s[from + i]]

Rep(byte, n) == [i \in 1..n |-> byte]

\* the sum of s[lo..hi], by halves
RECURSIVE SumRange(_, _, _)
SumRange(s, lo, hi) ==
    IF lo > hi THEN 0
    ELSE IF lo = hi THEN s[lo]
    ELSE SumRange(s, lo, (lo + hi) \div 2) + SumRange(s, (lo + hi) \div 2 + 1, hi)

Sum(s) == SumRange(s, 1, Len(s))

\* the sum of i * s[i] over lo..hi, by halves
RECURSIVE WSumRange(_, _, _)
WSumRange(s, lo, hi) ==
    IF lo > hi THEN 0
    ELSE IF lo = hi THEN lo * s[lo]
    ELSE WSumRange(s, lo, (lo + hi) \div 2) + WSumRange(s, (lo + hi) \div 2 + 1, hi)

\* position-weighted byte sum
WSum(s) == WSumRange(s, 1, Len(s))

RECURSIVE Concat(_)
Concat(ss) == IF ss = <<>> THEN <<>> ELSE Head(ss) \o Concat(Tail(ss))

\* n as k little-endian bytes (htole32 / htole64 followed by memcpy)
RECURSIVE LittleEndian(_, _)
LittleEndian(n, k) ==
    IF k = 0 THEN <<>> ELSE <<n % 256>> \o LittleEndian(n \div 256, k - 1)

\* n as k big-endian bytes (CBOR's network byte order)
RECURSIVE BigEndian(_, _)
BigEndian(n, k) ==
    IF k = 0 THEN <<>> ELSE BigEndian(n \div 256, k - 1) \o <<n % 256>>

RECURSIVE FromBigEndian(_)
FromBigEndian(s) ==
    IF s = <<>> THEN 0
    ELSE 256 * FromBigEndian(SubSeq(s, 1, Len(s) - 1)) + s[Len(s)]

(***************************************************************************)
(* SHA-256 (OpenSSL).  A 32-byte digest that depends on every byte, on its *)
(* position and on the length of the input.                                *)
(***************************************************************************)
SHA256(data) ==
    LET s1 == Sum(data)
        s2 == WSum(data)
        n  == Len(data)
    IN  [i \in 1..SHA256_DIGEST_LENGTH |->
            (s1 * i + s2 * (2 * i + 1) + n * (i + 3) + 7 * i) % 256]

(***************************************************************************)
(* AES-256-GCM (src/aes256.c of the library): the ciphertext is the        *)
(* encrypted stream followed by a 16-byte tag over key, nonce, aad and     *)
(* stream; opening fails unless the tag verifies.                          *)
(***************************************************************************)
GcmStream(key, nonce, i) ==
    key[((i - 1) % Len(key)) + 1] + nonce[((i - 1) % Len(nonce)) + 1]

GcmTag(key, nonce, aad, c) ==
    [i \in 1..LARGEBLOB_TAG_LENGTH |->
        (Sum(key) * i + WSum(nonce) * (i + 1) + WSum(aad) * (i + 2)
            + WSum(c) * (2 * i + 1) + Len(c)) % 256]

\* [ok, ct]
aes256_gcm_enc(key, nonce, aad, pt) ==
    IF Len(key) # KEY_LENGTH \/ Len(nonce) # LARGEBLOB_NONCE_LENGTH
    THEN [ok |-> FALSE, ct |-> <<>>]
    ELSE LET c == [i \in 1..Len(pt) |-> (pt[i] + GcmStream(key, nonce, i)) % 256]
         IN  [ok |-> TRUE, ct |-> c \o GcmTag(key, nonce, aad, c)]

\* [ok, pt]
aes256_gcm_dec(key, nonce, aad, ct) ==
    IF \/ Len(key) # KEY_LENGTH
       \/ Len(nonce) # LARGEBLOB_NONCE_LENGTH
       \/ Len(ct) < LARGEBLOB_TAG_LENGTH
    THEN [ok |-> FALSE, pt |-> <<>>]
    ELSE LET n   == Len(ct) - LARGEBLOB_TAG_LENGTH
             c   == SubSeq(ct, 1, n)
             tag == SubSeq(ct, n + 1, Len(ct))
         IN  IF tag # GcmTag(key, nonce, aad, c)
             THEN [ok |-> FALSE, pt |-> <<>>]
             ELSE [ok |-> TRUE,
                   pt |-> [i \in 1..n |->
                             (c[i] + 512 - GcmStream(key, nonce, i)) % 256]]

(***************************************************************************)
(* The compressor (src/compress.c of the library): a one-byte header, the  *)
(* data, a one-byte checksum; uncompress enforces the expected length.     *)
(***************************************************************************)
fido_compress(pt) == <<120>> \o pt \o <<Sum(pt) % 256>>

\* [r, out]
fido_uncompress(df, origsize) ==
    LET n    == Len(df) - 2
        body == SubSeq(df, 2, Len(df) - 1)
    IN  IF \/ Len(df) < 2
           \/ df[1] # 120
           \/ df[Len(df)] # Sum(body) % 256
           \/ n # origsize
        THEN [r |-> FIDO_ERR_INTERNAL, out |-> <<>>]
        ELSE [r |-> FIDO_OK, out |-> body]

(***************************************************************************)
(* The CBOR codec (libcbor and src/cbor.c of the library).  An item is a   *)
(* record: t the type, n the value of an integer, w its width in bits, b   *)
(* the bytes of a string, c the children (for a map: key, value, key, ...) *)
(* and d whether an array or map is definite.  The model covers unsigned   *)
(* and negative integers, byte and text strings, arrays and maps; tags,    *)
(* simple values and indefinite strings and maps do not occur in it and do *)
(* not parse.                                                              *)
(***************************************************************************)
Item(t, n, w, b, c, d) == [t |-> t, n |-> n, w |-> w, b |-> b, c |-> c, d |-> d]

NoItem == Item("none", 0, 0, <<>>, <<>>, FALSE)

\* the width cbor_build_uint picks (values of the model stay below 2^31)
UintWidth(n) == IF n < 256 THEN 8 ELSE IF n < 65536 THEN 16 ELSE 32

cbor_build_uint(n) == Item("uint", n, UintWidth(n), <<>>, <<>>, TRUE)

cbor_build_uint8(n) == Item("uint", n, 8, <<>>, <<>>, TRUE)

cbor_build_bytestring(bytes) == Item("bstr", 0, 0, bytes, <<>>, TRUE)

cbor_new_definite_array(items) == Item("array", 0, 0, <<>>, items, TRUE)

cbor_new_definite_map(kvs) == Item("map", 0, 0, <<>>, kvs, TRUE)

cbor_array_size(arr) == Len(arr.c)

cbor_isa_array(item) == item.t = "array"

cbor_array_is_definite(item) == item.d

cbor_isa_map(item) == item.t = "map"

cbor_map_is_definite(item) == item.d

cbor_isa_uint(item) == item.t = "uint"

cbor_isa_bytestring(item) == item.t = "bstr"

\* initial byte and argument of a head with the value held in `width` bits
CborHeadW(major, n, width) ==
    IF width = 8
    THEN (IF n < 24 THEN <<major * 32 + n>> ELSE <<major * 32 + 24, n>>)
    ELSE IF width = 16 THEN <<major * 32 + 25>> \o BigEndian(n, 2)
    ELSE IF width = 32 THEN <<major * 32 + 26>> \o BigEndian(n, 4)
    ELSE <<major * 32 + 27>> \o BigEndian(n, 8)

\* the shortest head for n (lengths of strings, arrays and maps)
CborHead(major, n) == CborHeadW(major, n, UintWidth(n))

RECURSIVE cbor_serialize(_)
RECURSIVE SerializeAll(_)
SerializeAll(items) ==
    IF items = <<>> THEN <<>>
    ELSE cbor_serialize(Head(items)) \o SerializeAll(Tail(items))

cbor_serialize(item) ==
    CASE item.t = "uint"   -> CborHeadW(0, item.n, item.w)
      [] item.t = "negint" -> CborHeadW(1, item.n, item.w)
      [] item.t = "bstr"   -> CborHead(2, Len(item.b)) \o item.b
      [] item.t = "tstr"   -> CborHead(3, Len(item.b)) \o item.b
      [] item.t = "array"  ->
            IF item.d THEN CborHead(4, Len(item.c)) \o SerializeAll(item.c)
            ELSE <<159>> \o SerializeAll(item.c) \o <<255>>
      [] item.t = "map"    -> CborHead(5, Len(item.c) \div 2) \o SerializeAll(item.c)
      [] OTHER             -> <<>>

ParseFail == [ok |-> FALSE, item |-> NoItem, next |-> 0]

\* the argument of the head at pos: [ok, val, w, next]
CborArg(bytes, pos) ==
    LET ai == bytes[pos] % 32
        k  == IF ai = 24 THEN 1 ELSE IF ai = 25 THEN 2 ELSE IF ai = 26 THEN 4 ELSE 8
    IN  IF ai < 24 THEN [ok |-> TRUE, val |-> ai, w |-> 8, next |-> pos + 1]
        ELSE IF ai > 27 \/ pos + k > Len(bytes)
        THEN [ok |-> FALSE, val |-> 0, w |-> 0, next |-> 0]
        ELSE [ok |-> TRUE, val |-> FromBigEndian(SubSeq(bytes, pos + 1, pos + k)),
              w |-> 8 * k, next |-> pos + k + 1]

RECURSIVE CborParse(_, _)
RECURSIVE CborParseN(_, _, _)
RECURSIVE CborParseUntilBreak(_, _)

\* n consecutive items from pos: [ok, items, next]
CborParseN(bytes, pos, n) ==
    IF n = 0 THEN [ok |-> TRUE, items |-> <<>>, next |-> pos]
    ELSE LET first == CborParse(bytes, pos)
         IN  IF ~first.ok THEN [ok |-> FALSE, items |-> <<>>, next |-> 0]
             ELSE LET rest == CborParseN(bytes, first.next, n - 1)
                  IN  IF ~rest.ok THEN rest
                      ELSE [ok |-> TRUE, items |-> <<first.item>> \o rest.items,
                            next |-> rest.next]

\* items up to the break byte 0xff: [ok, items, next]
CborParseUntilBreak(bytes, pos) ==
    IF pos > Len(bytes) THEN [ok |-> FALSE, items |-> <<>>, next |-> 0]
    ELSE IF bytes[pos] = 255 THEN [ok |-> TRUE, items |-> <<>>, next |-> pos + 1]
    ELSE LET first == CborParse(bytes, pos)
         IN  IF ~first.ok THEN [ok |-> FALSE, items |-> <<>>, next |-> 0]
             ELSE LET rest == CborParseUntilBreak(bytes, first.next)
                  IN  IF ~rest.ok THEN rest
                      ELSE [ok |-> TRUE, items |-> <<first.item>> \o rest.items,
                            next |-> rest.next]

\* one item from pos: [ok, item, next]; fails when the bytes run out
CborParse(bytes, pos) ==
    IF pos > Len(bytes) THEN ParseFail
    ELSE
    LET major == bytes[pos] \div 32
        arg   == CborArg(bytes, pos)
    IN  IF major = 4 /\ bytes[pos] = 159
        THEN LET kids == CborParseUntilBreak(bytes, pos + 1)
             IN  IF ~kids.ok THEN ParseFail
                 ELSE [ok |-> TRUE, next |-> kids.next,
                       item |-> Item("array", 0, 0, <<>>, kids.items, FALSE)]
        ELSE IF ~arg.ok \/ major > 5 THEN ParseFail
        ELSE IF major = 0
        THEN [ok |-> TRUE, item |-> Item("uint", arg.val, arg.w, <<>>, <<>>, TRUE),
              next |-> arg.next]
        ELSE IF major = 1
        THEN [ok |-> TRUE, item |-> Item("negint", arg.val, arg.w, <<>>, <<>>, TRUE),
              next |-> arg.next]
        ELSE IF major \in {2, 3}
        THEN IF arg.next + arg.val - 1 > Len(bytes) THEN ParseFail
             ELSE [ok |-> TRUE, next |-> arg.next + arg.val,
                   item |-> Item(IF major = 2 THEN "bstr" ELSE "tstr", 0, 0,
                                 SubSeq(bytes, arg.next, arg.next + arg.val - 1),
                                 <<>>, TRUE)]
        ELSE LET kids == CborParseN(bytes, arg.next,
                                    IF major = 4 THEN arg.val ELSE 2 * arg.val)
             IN  IF ~kids.ok THEN ParseFail
                 ELSE [ok |-> TRUE, next |-> kids.next,
                       item |-> Item(IF major = 4 THEN "array" ELSE "map", 0, 0,
                                     <<>>, kids.items, TRUE)]

\* cbor_load: the first item of the buffer; bytes after it are not read
cbor_load(bytes) == CborParse(bytes, 1)

(***************************************************************************)
(* largeblob_t and the element codec.                                      *)
(***************************************************************************)
\* largeblob_new / largeblob_reset: empty ct, empty nonce, sz = 0
largeblob_new == [ct |-> <<>>, nonce |-> <<>>, sz |-> 0]

largeblob_reset(blob) == largeblob_new

\* "blob" followed by the size as 8 little-endian bytes
largeblob_aad(size) == <<98, 108, 111, 98>> \o LittleEndian(size, 8)

\* open the element under key: [ok, pt] (pt is the compressed stream)
largeblob_pt(blob, key) ==
    aes256_gcm_dec(key, blob.nonce, largeblob_aad(blob.sz), blob.ct)

\* the result of largeblob_comp_enc given the outcome enc of aes256_gcm_enc
SealedBlob(pt, nonce, enc) ==
    IF ~enc.ok THEN [ok |-> FALSE, blob |-> largeblob_new]
    ELSE [ok |-> TRUE, blob |-> [ct |-> enc.ct, nonce |-> nonce, sz |-> Len(pt)]]

\* seal pt under key with the nonce drawn by largeblob_gen_nonce: [ok, blob]
largeblob_comp_enc(pt, key, nonce) ==
    SealedBlob(pt, nonce,
               aes256_gcm_enc(key, nonce, largeblob_aad(Len(pt)), fido_compress(pt)))

\* cbor_flatten_vector: the map {1: argv[0], 2: argv[1], 3: argv[2]}
cbor_flatten_vector(argv) ==
    cbor_new_definite_map(Concat([i \in 1..Len(argv) |-> <<cbor_build_uint8(i), argv[i]>>]))

\* the map largeblob_encode builds from the outcome enc of largeblob_comp_enc
EncodedItem(enc) ==
    IF ~enc.ok THEN [ok |-> FALSE, item |-> NoItem]
    ELSE [ok |-> TRUE,
          item |-> cbor_flatten_vector(<<cbor_build_bytestring(enc.blob.ct),
                                         cbor_build_bytestring(enc.blob.nonce),
                                         cbor_build_uint(enc.blob.sz)>>)]

\* [ok, item]
largeblob_encode(pt, key, nonce) == EncodedItem(largeblob_comp_enc(pt, key, nonce))

\* fido_blob_decode: copy a definite byte string: [rc, b]
fido_blob_decode(val, old) ==
    IF cbor_isa_bytestring(val) THEN [rc |-> 0, b |-> val.b] ELSE [rc |-> -1, b |-> old]

\* the callback of cbor_map_iter for one (key, val) entry: [rc, blob]
largeblob_do_decode(key, val, blob) ==
    IF ~cbor_isa_uint(key) \/ key.w # 8 THEN [rc |-> 0, blob |-> blob]
    ELSE IF key.n = 1
    THEN [rc |-> IF ~cbor_isa_bytestring(val) \/ Len(val.b) < LARGEBLOB_TAG_LENGTH
                 THEN -1 ELSE 0,
          blob |-> [blob EXCEPT !.ct = fido_blob_decode(val, blob.ct).b]]
    ELSE IF key.n = 2
    THEN [rc |-> IF ~cbor_isa_bytestring(val) \/ Len(val.b) # LARGEBLOB_NONCE_LENGTH
                 THEN -1 ELSE 0,
          blob |-> [blob EXCEPT !.nonce = fido_blob_decode(val, blob.nonce).b]]
    ELSE IF key.n = 3
    THEN IF ~cbor_isa_uint(val) THEN [rc |-> -1, blob |-> blob]
         ELSE [rc |-> 0, blob |-> [blob EXCEPT !.sz = val.n]]
    ELSE [rc |-> 0, blob |-> blob]

\* cbor_map_iter with largeblob_do_decode, stopping at the first failure;
\* d is the outcome of the entry before i
RECURSIVE MapIterDecode(_, _, _)
MapIterDecode(kvs, i, d) ==
    IF d.rc < 0 \/ i > Len(kvs) THEN d
    ELSE MapIterDecode(kvs, i + 2, largeblob_do_decode(kvs[i], kvs[i + 1], d.blob))

\* the presence checks of largeblob_decode on the outcome d of the iteration
DecodeCheck(d) ==
    IF d.rc < 0 THEN d
    ELSE IF d.blob.ct = <<>> \/ d.blob.nonce = <<>> \/ d.blob.sz = 0
    THEN [rc |-> -1, blob |-> d.blob]
    ELSE [rc |-> 0, blob |-> d.blob]

\* [rc, blob]: blob is what the caller's largeblob_t holds afterwards
largeblob_decode(blob, item) ==
    IF ~cbor_isa_map(item) \/ ~cbor_map_is_definite(item) THEN [rc |-> -1, blob |-> blob]
    ELSE DecodeCheck(MapIterDecode(item.c, 1, [rc |-> 0, blob |-> blob]))

(***************************************************************************)
(* Lookup and the mutators.  Indices are 0-based as in the source; an      *)
(* index of -1 stands for the uninitialised local of a failed find.        *)
(***************************************************************************)
\* the loop of largeblob_array_find from element i on, blob being the state of
\* the scratch largeblob_t: [r, index, pt, blob]
RECURSIVE FindLoop(_, _, _, _)
RECURSIVE FindOpen(_, _, _, _, _)
FindLoop(arr, key, i, blob) ==
    IF i >= cbor_array_size(arr)
    THEN [r |-> FIDO_ERR_NOTFOUND, index |-> -1, pt |-> <<>>, blob |-> blob]
    ELSE FindOpen(arr, key, i, largeblob_decode(blob, arr.c[i + 1]), blob)

\* a loop body that goes on with the scratch blob as the decode left it
FindOpenKeepsBlob(arr, key, i, d, blob) ==
    IF d.rc = 0 /\ largeblob_pt(d.blob, key).ok
    THEN [r |-> FIDO_OK, index |-> i, pt |-> largeblob_pt(d.blob, key).pt, blob |-> d.blob]
    ELSE FindLoop(arr, key, i + 1, d.blob)

\* the body of the loop once element i has been decoded with outcome d: try to
\* open it, otherwise reset the scratch blob and go on
FindOpen(arr, key, i, d, blob) ==
    IF d.rc = 0 /\ largeblob_pt(d.blob, key).ok
    THEN [r |-> FIDO_OK, index |-> i, pt |-> largeblob_pt(d.blob, key).pt, blob |-> d.blob]
    ELSE FindLoop(arr, key, i + 1, largeblob_reset(d.blob))

\* the tail of largeblob_array_find: uncompress when out != NULL
FindResult(want_out, f) ==
    IF f.r = FIDO_OK /\ want_out
    THEN [r |-> fido_uncompress(f.pt, f.blob.sz).r, index |-> f.index,
          out |-> fido_uncompress(f.pt, f.blob.sz).out]
    ELSE [r |-> f.r, index |-> f.index, out |-> <<>>]

\* [r, index, out]; want_out says whether the caller passed out != NULL
largeblob_array_find(want_out, key, arr) ==
    FindResult(want_out, FindLoop(arr, key, 0, largeblob_new))

\* libcbor: false when index is past the end: [ok, arr]
cbor_array_replace(arr, index, item) ==
    IF index < 0 \/ index >= cbor_array_size(arr) THEN [ok |-> FALSE, arr |-> arr]
    ELSE [ok |-> TRUE, arr |-> [arr EXCEPT !.c[index + 1] = item]]

\* a new definite array: the old elements, then item: [rc, arr]
cbor_array_append(arr, item) ==
    [rc |-> 0, arr |-> cbor_new_definite_array(arr.c \o <<item>>)]

\* a new definite array without element idx: [rc, arr]
cbor_array_drop(arr, idx) ==
    IF idx < 0 \/ idx >= cbor_array_size(arr) THEN [rc |-> -1, arr |-> arr]
    ELSE [rc |-> 0,
          arr |-> cbor_new_definite_array(
                      SubSeq(arr.c, 1, idx) \o SubSeq(arr.c, idx + 2, Len(arr.c)))]

\* a switch that appends whatever the find says
InsertAlwaysAppend(arr, blob, f) ==
    [r |-> FIDO_OK, arr |-> cbor_array_append(arr, blob).arr]

\* the switch of largeblob_array_insert on the outcome f of the find: [r, arr]
InsertSwitch(arr, blob, f) ==
    IF f.r = FIDO_OK
    THEN (IF ~cbor_array_replace(arr, f.index, blob).ok
          THEN [r |-> FIDO_ERR_INTERNAL, arr |-> arr]
          ELSE [r |-> FIDO_OK, arr |-> cbor_array_replace(arr, f.index, blob).arr])
    ELSE IF f.r = FIDO_ERR_NOTFOUND
    THEN (IF cbor_array_append(arr, blob).rc < 0
          THEN [r |-> FIDO_ERR_INTERNAL, arr |-> arr]
          ELSE [r |-> FIDO_OK, arr |-> cbor_array_append(arr, blob).arr])
    ELSE [r |-> f.r, arr |-> arr]

\* [r, arr]
largeblob_array_insert(arr, key, blob) ==
    InsertSwitch(arr, blob, largeblob_array_find(FALSE, key, arr))

\* a switch that drops the first element when the key is found
RemoveDropsFirst(arr, f) ==
    IF f.r = FIDO_OK THEN [r |-> FIDO_OK, arr |-> cbor_array_drop(arr, 0).arr]
    ELSE [r |-> FIDO_OK, arr |-> arr]

\* the switch of largeblob_array_remove on the outcome f of the find: [r, arr]
RemoveSwitch(arr, f) ==
    IF f.r = FIDO_OK
    THEN (IF cbor_array_drop(arr, f.index).rc < 0
          THEN [r |-> FIDO_ERR_INTERNAL, arr |-> arr]
          ELSE [r |-> FIDO_OK, arr |-> cbor_array_drop(arr, f.index).arr])
    ELSE IF f.r = FIDO_ERR_NOTFOUND
    THEN [r |-> FIDO_OK, arr |-> arr]
    ELSE [r |-> f.r, arr |-> arr]

\* [r, arr]
largeblob_array_remove(arr, key) ==
    RemoveSwitch(arr, largeblob_array_find(FALSE, key, arr))

\* the inner loop of remove_unknown_blobs: does the decoded blob open under one
\* of keys[j..]?
RECURSIVE OpensUnderSome(_, _, _)
OpensUnderSome(blob, keys, j) ==
    IF j > Len(keys) THEN FALSE
    ELSE IF largeblob_pt(blob, keys[j]).ok THEN TRUE
    ELSE OpensUnderSome(blob, keys, j + 1)

\* the loop of remove_unknown_blobs from element i on; blob is the state of the
\* scratch largeblob_t and new the array built so far: [r, arr]
RECURSIVE TrimLoop(_, _, _, _, _)
RECURSIVE TrimStep(_, _, _, _, _)
TrimLoop(arr, keys, i, blob, new) ==
    IF i >= cbor_array_size(arr) THEN [r |-> FIDO_OK, arr |-> new]
    ELSE TrimStep(arr, keys, i, largeblob_decode(blob, arr.c[i + 1]), new)

\* the body of the loop once element i has been decoded with outcome d: the
\* scratch blob is reset only when the decode succeeded
TrimStep(arr, keys, i, d, new) ==
    IF d.rc = 0
    THEN (IF OpensUnderSome(d.blob, keys, 1)
          THEN TrimLoop(arr, keys, i + 1, largeblob_reset(d.blob),
                        cbor_array_append(new, arr.c[i + 1]).arr)
          ELSE TrimLoop(arr, keys, i + 1, largeblob_reset(d.blob), new))
    ELSE TrimLoop(arr, keys, i + 1, d.blob, cbor_array_append(new, arr.c[i + 1]).arr)

\* [r, arr]
remove_unknown_blobs(arr, keys) ==
    TrimLoop(arr, keys, 0, largeblob_new, cbor_new_definite_array(<<>>))

(***************************************************************************)
(* The array codec and the chunk length.                                   *)
(***************************************************************************)
\* the leading 16 bytes of SHA-256: [rc, dgst]
largeblob_array_digest(data) ==
    IF Len(data) = 0 THEN [rc |-> -1, dgst |-> <<>>]
    ELSE [rc |-> 0, dgst |-> SubSeq(SHA256(data), 1, LARGEBLOB_DIGEST_LENGTH)]

\* 0 when the trailing 16 bytes are the digest of what precedes them
validate_largeblob_array(b) ==
    IF Len(b) <= LARGEBLOB_DIGEST_LENGTH THEN -1
    ELSE LET offset == Len(b) - LARGEBLOB_DIGEST_LENGTH
             dg     == largeblob_array_digest(SubSeq(b, 1, offset))
         IN  IF dg.rc # 0 THEN -1
             ELSE IF dg.dgst = SubSeq(b, offset + 1, Len(b)) THEN 0 ELSE 1

\* the checks of largeblob_array_load on the outcome p of cbor_load
LoadCheck(p) ==
    IF ~p.ok THEN [ok |-> FALSE, item |-> NoItem]
    ELSE IF ~cbor_isa_array(p.item) \/ ~cbor_array_is_definite(p.item)
    THEN [ok |-> FALSE, item |-> NoItem]
    ELSE [ok |-> TRUE, item |-> p.item]

\* [ok, item]; ok = FALSE is the NULL return
largeblob_array_load(bytes) ==
    IF Len(bytes) < SHA256_DIGEST_LENGTH THEN [ok |-> FALSE, item |-> NoItem]
    ELSE LoadCheck(cbor_load(SubSeq(bytes, 1, Len(bytes) - SHA256_DIGEST_LENGTH)))

\* a chunk length without the 64-byte reserve
max_fragment_unreserved(maxmsgsize) ==
    IF maxmsgsize > FIDO_MAXMSG THEN FIDO_MAXMSG ELSE maxmsgsize

\* the chunk length for the advertised maximum message size
max_fragment_length(maxmsgsize) ==
    LET capped == IF maxmsgsize > FIDO_MAXMSG THEN FIDO_MAXMSG ELSE maxmsgsize
    IN  IF capped > FRAG_RESERVE THEN capped - FRAG_RESERVE ELSE 0

\* a fetcher that parses whatever it assembled
FetchAlwaysLoads(assembled) == largeblob_array_load(assembled)

\* what largeblob_array_get_wait makes of the assembled bytes: [ok, item]
FetchResult(assembled) ==
    IF validate_largeblob_array(assembled) = 0
    THEN largeblob_array_load(assembled)
    ELSE [ok |-> TRUE, item |-> cbor_new_definite_array(<<>>)]

(***************************************************************************)
(* The per-fragment HMAC input and the write frame.                        *)
(***************************************************************************)
CTAP_CBOR_LARGEBLOB == 12

\* a size_t by its 8 bytes, least significant first
SizeT(n) == LittleEndian(n, 8)

\* offset > UINT32_MAX, for a size_t given by its bytes
ExceedsUint32(offset) == \E i \in 5..8 : offset[i] # 0

\* a buffer that takes the low 32 bits of whatever offset it is given
prepare_hmac_truncates(offset, data) ==
    IF Len(data) = 0 THEN [rc |-> -1, hmac |-> <<>>]
    ELSE [rc |-> 0,
          hmac |-> Rep(255, 32) \o <<CTAP_CBOR_LARGEBLOB, 0>>
                     \o SubSeq(offset, 1, 4) \o SHA256(data)]

\* [rc, hmac]: 32 x 0xff, the command, 0x00, the low 4 bytes of the offset
\* least significant first (htole32), SHA-256 of the fragment; offset is a
\* size_t by its bytes
prepare_hmac(offset, data) ==
    IF ExceedsUint32(offset) \/ Len(data) = 0 THEN [rc |-> -1, hmac |-> <<>>]
    ELSE [rc |-> 0,
          hmac |-> Rep(255, 32) \o <<CTAP_CBOR_LARGEBLOB, 0>>
                     \o SubSeq(offset, 1, 4) \o SHA256(data)]

\* a frame that carries totalSize whatever the offset
set_tx_total_always(token, frag, offset, total) ==
    LET frame == [set |-> frag, offset |-> offset, total |-> total, auth |-> token]
    IN  IF token /\ prepare_hmac(SizeT(offset), frag).rc # 0
        THEN [r |-> FIDO_ERR_INTERNAL, frame |-> frame]
        ELSE [r |-> FIDO_OK, frame |-> frame]

\* a frame that carries the authorization in the first fragment only
set_tx_auth_first_only(token, frag, offset, total) ==
    LET frame == [set |-> frag, offset |-> offset,
                  total |-> IF offset = 0 THEN total ELSE -1, auth |-> token /\ offset = 0]
    IN  IF token /\ prepare_hmac(SizeT(offset), frag).rc # 0
        THEN [r |-> FIDO_ERR_INTERNAL, frame |-> frame]
        ELSE [r |-> FIDO_OK, frame |-> frame]

\* the frame largeblob_array_set_tx hands to fido_tx: [r, frame]; total is -1
\* when key 4 is absent, auth says whether keys 5 and 6 are present
largeblob_array_set_tx(token, frag, offset, total) ==
    LET frame == [set |-> frag, offset |-> offset,
                  total |-> IF offset = 0 THEN total ELSE -1, auth |-> token]
    IN  IF token /\ prepare_hmac(SizeT(offset), frag).rc # 0
        THEN [r |-> FIDO_ERR_INTERNAL, frame |-> frame]
        ELSE [r |-> FIDO_OK, frame |-> frame]

(***************************************************************************)
(* The authenticator: it answers a read (offset, count) with the stored    *)
(* bytes in that range, collects write fragments that arrive at the        *)
(* expected offset, and replaces the stored bytes once the announced       *)
(* length is complete and its trailing digest verifies.                    *)
(***************************************************************************)
DevRead(stored, offset, count) == Slice(stored, offset, count)

\* [st, wr, total, bytes]: the status reply and the device's next state
DevWrite(stored, wr, total, frame) ==
    LET started == frame.offset = 0 /\ frame.total > 0
        more    == frame.offset > 0 /\ total > 0 /\ frame.offset = Len(wr)
        wr2     == IF started THEN frame.set ELSE wr \o frame.set
        total2  == IF started THEN frame.total ELSE total
    IN  IF ~started /\ ~more
        THEN [st |-> "FIDO_ERR_INVALID_SEQ", wr |-> wr, total |-> total, bytes |-> stored]
        ELSE IF Len(wr2) < total2
        THEN [st |-> FIDO_OK, wr |-> wr2, total |-> total2, bytes |-> stored]
        ELSE IF Len(wr2) = total2 /\ validate_largeblob_array(wr2) = 0
        THEN [st |-> FIDO_OK, wr |-> <<>>, total |-> 0, bytes |-> wr2]
        ELSE [st |-> "FIDO_ERR_INTEGRITY_FAILURE", wr |-> <<>>, total |-> 0, bytes |-> stored]

(***************************************************************************)
(* Bounds and inputs.                                                      *)
(***************************************************************************)
\* public operations per behaviour
MaxOps == 2

K1 == Rep(1, KEY_LENGTH)
K2 == Rep(2, KEY_LENGTH)
Keys == {K1, K2}

\* plaintexts handed to put
P1 == <<104, 105>>
P2 == <<7>>
Blobs == {P1, P2}

\* what largeblob_gen_nonce may draw
N1 == [i \in 1..LARGEBLOB_NONCE_LENGTH |-> i]
N2 == [i \in 1..LARGEBLOB_NONCE_LENGTH |-> 3 * i]
Nonces == {N1, N2}

\* advertised maximum message sizes: chunk lengths 0 (below and at the
\* reserve), 16, 1136 and, beyond FIDO_MAXMSG, 1984
MsgSizes == {32, 64, 80, 1200, 3000}

\* (key_ptr, key_len) arguments; bytes is what key_ptr points to
KeyArgs ==
    {[null |-> FALSE, bytes |-> K1, len |-> 32], [null |-> FALSE, bytes |-> K2, len |-> 32],
     [null |-> FALSE, bytes |-> K1, len |-> 31], [null |-> TRUE, bytes |-> <<>>, len |-> 32]}

\* the caller's output blob for get: one holding stale bytes, or a null pointer
GetBlobArgs == {[null |-> FALSE, bytes |-> <<9>>], [null |-> TRUE, bytes |-> <<>>]}

\* the caller's input blob for put
PutBlobArgs ==
    {[null |-> FALSE, bytes |-> b] : b \in Blobs \cup {<<>>}} \cup {[null |-> TRUE, bytes |-> <<>>]}

NoBlobArg == [null |-> TRUE, bytes |-> <<>>]

\* an element sealed under K1, and the same element without origSize
ElemK1 == largeblob_encode(P1, K1, N1).item
ElemNoSize == cbor_new_definite_map(SubSeq(ElemK1.c, 1, 4))

\* the on-device image of an array: its serialization and the 16-byte digest
Image(body) == body \o SubSeq(SHA256(body), 1, LARGEBLOB_DIGEST_LENGTH)

\* bytes with the byte at position i changed
FlipAt(bytes, i) == [bytes EXCEPT ![i] = (bytes[i] + 1) % 256]

FlipLast(bytes) == FlipAt(bytes, Len(bytes))

ImageFresh == Image(cbor_serialize(cbor_new_definite_array(<<>>)))
ImageOne == Image(cbor_serialize(cbor_new_definite_array(<<ElemK1>>)))
ImageTwo == Image(cbor_serialize(cbor_new_definite_array(<<ElemNoSize, ElemK1>>)))
ImageCorrupt == FlipLast(ImageOne)
ImageCorruptBody == FlipAt(ImageOne, 3)
\* a digest with no body before it: 16 bytes
ImageShort == SubSeq(ImageFresh, 2, Len(ImageFresh))
\* a two-element array followed by 16 bytes that are not part of it, with the
\* digest of both: an image some other client left on the authenticator
ImagePadded ==
    Image(cbor_serialize(cbor_new_definite_array(<<ElemNoSize, ElemK1>>))
            \o Rep(0, LARGEBLOB_DIGEST_LENGTH))

\* initial on-device bytes
DevImages ==
    {<<>>, ImageShort, ImageFresh, ImageOne, ImageTwo, ImageCorrupt, ImageCorruptBody,
     ImagePadded}

(***************************************************************************)
(* State.                                                                  *)
(***************************************************************************)
VARIABLES
    dev_bytes,    \* the authenticator's stored large-blob bytes
    dev_wr,       \* the fragments of an unfinished write
    dev_total,    \* the announced length of that write (0: none)
    dev_reply,    \* the status reply in flight
    maxmsgsize,   \* the authenticator's advertised maximum message size
    uv_required,  \* fido_dev_can_get_uv_token
    pc,           \* where the client is: idle, get_tx, get_rx, ecdh, token,
                  \* set_tx, set_rx, done
    call,         \* the running operation and its arguments
    item,         \* put: the freshly sealed element
    buf,          \* get_wait: the bytes assembled so far (arr)
    fetched,      \* the array largeblob_array_get_wait returned
    arr,          \* the in-memory array after the mutation
    cbor,         \* set_wait: the serialized array
    offset,       \* set_wait: offset
    ctx,          \* set_wait: the bytes fed to the running SHA-256
    token,        \* set_wait: whether a PIN/UV token is held
    ret,          \* the operation's return value
    out_blob,     \* the caller's blob
    trace,        \* the transport events of the operation
    dev0,         \* the stored bytes when the operation was called
    prev,         \* the previous operation, when it was a put that returned
                  \* FIDO_OK: its key and blob
    nops          \* completed operations

dev_vars == <<dev_bytes, dev_wr, dev_total, dev_reply>>
cfg_vars == <<maxmsgsize, uv_required>>
wr_vars == <<cbor, offset, ctx, token>>
hist_vars == <<dev0, prev, nops>>
vars == <<dev_bytes, dev_wr, dev_total, dev_reply, maxmsgsize, uv_required, pc, call,
          item, buf, fetched, arr, cbor, offset, ctx, token, ret, out_blob, trace, dev0, prev, nops>>

NoCall == [op |-> "none", key |-> [null |-> TRUE, bytes |-> <<>>, len |-> 0],
           blob |-> NoBlobArg, nonce |-> <<>>]

NoPrev == [op |-> "none", key |-> <<>>, pt |-> <<>>]

\* a transport event: k is rd_tx, rd_rx, ecdh, token, wr_tx or wr_rx
Event(k, off, len, total, auth, st) ==
    [k |-> k, off |-> off, len |-> len, total |-> total, auth |-> auth, st |-> st]

\* the transmit of a write fragment: frag is the byte string under key 1
WriteEvent(off, frag, total, auth, st) ==
    [k |-> "wr_tx", off |-> off, len |-> Len(frag), total |-> total, auth |-> auth,
     st |-> st, set |-> frag]

maxlen == max_fragment_length(maxmsgsize)

Init ==
    /\ dev_bytes \in DevImages
    /\ dev_wr = <<>>
    /\ dev_total = 0
    /\ dev_reply = ""
    /\ maxmsgsize \in MsgSizes
    /\ uv_required \in BOOLEAN
    /\ pc = "idle"
    /\ call = NoCall
    /\ item = NoItem
    /\ buf = <<>>
    /\ fetched = NoItem
    /\ arr = NoItem
    /\ cbor = <<>>
    /\ offset = 0
    /\ ctx = <<>>
    /\ token = FALSE
    /\ ret = ""
    /\ out_blob = <<>>
    /\ trace = <<>>
    /\ dev0 = <<>>
    /\ prev = NoPrev
    /\ nops = 0

(***************************************************************************)
(* The public operations up to their first suspension point.               *)
(***************************************************************************)
\* the check without the key length
get_args_unchecked_len(c) == c.blob.null \/ c.key.null

get_args_invalid(c) == c.blob.null \/ c.key.null \/ c.key.len # KEY_LENGTH

put_args_invalid(c) ==
    c.blob.null \/ c.blob.bytes = <<>> \/ c.key.null \/ c.key.len # KEY_LENGTH

remove_args_invalid(c) == c.key.null \/ c.key.len # KEY_LENGTH

\* the head of largeblob_array_get_wait
\* a fetch that starts reading whatever the chunk length
BeginFetchUnchecked ==
    /\ buf' = <<>>
    /\ pc' = "get_tx" /\ ret' = ""

BeginFetch ==
    /\ buf' = <<>>
    /\ IF maxlen = 0
       THEN pc' = "done" /\ ret' = FIDO_ERR_INTERNAL
       ELSE pc' = "get_tx" /\ ret' = ""

Enter(c) ==
    /\ pc = "idle"
    /\ nops < MaxOps
    /\ trace' = <<>>
    /\ dev0' = dev_bytes
    /\ fetched' = NoItem
    /\ arr' = NoItem
    /\ UNCHANGED <<dev_vars, cfg_vars, wr_vars, prev, nops>>

fido_dev_largeblob_get(c) ==
    /\ c.op = "get"
    /\ Enter(c)
    /\ call' = c
    /\ item' = NoItem
    /\ IF get_args_invalid(c)
       THEN /\ pc' = "done"
            /\ ret' = FIDO_ERR_INVALID_ARGUMENT
            /\ buf' = <<>>
            /\ out_blob' = c.blob.bytes
       ELSE /\ out_blob' = <<>>
            /\ BeginFetch

\* nonce is what largeblob_gen_nonce draws when the arguments pass
fido_dev_largeblob_put(c, nonce) ==
    /\ c.op = "put"
    /\ Enter(c)
    /\ out_blob' = out_blob
    /\ IF put_args_invalid(c)
       THEN /\ nonce = CHOOSE n \in Nonces : TRUE
            /\ call' = c
            /\ pc' = "done"
            /\ ret' = FIDO_ERR_INVALID_ARGUMENT
            /\ buf' = <<>>
            /\ item' = NoItem
       ELSE \E enc \in {largeblob_encode(c.blob.bytes, c.key.bytes, nonce)} :
                /\ call' = [c EXCEPT !.nonce = nonce]
                /\ IF ~enc.ok
                   THEN pc' = "done" /\ ret' = FIDO_ERR_INTERNAL /\ buf' = <<>> /\ item' = NoItem
                   ELSE item' = enc.item /\ BeginFetch

fido_dev_largeblob_remove(c) ==
    /\ c.op = "remove"
    /\ Enter(c)
    /\ call' = c
    /\ out_blob' = out_blob
    /\ item' = NoItem
    /\ IF remove_args_invalid(c)
       THEN /\ pc' = "done"
            /\ ret' = FIDO_ERR_INVALID_ARGUMENT
            /\ buf' = <<>>
       ELSE BeginFetch

GetCalls ==
    {[op |-> "get", key |-> k, blob |-> b, nonce |-> <<>>] : k \in KeyArgs, b \in GetBlobArgs}

PutCalls ==
    {[op |-> "put", key |-> k, blob |-> b, nonce |-> <<>>] : k \in KeyArgs, b \in PutBlobArgs}

RemoveCalls ==
    {[op |-> "remove", key |-> k, blob |-> NoBlobArg, nonce |-> <<>>] : k \in KeyArgs}

(***************************************************************************)
(* The fetcher's loop and what each operation does with the fetched array. *)
(***************************************************************************)
Finish(r) == pc' = "done" /\ ret' = r

\* the head of largeblob_array_set_wait, with the mutated array a and its
\* serialization bytes
BeginWriteOf(a, bytes) ==
    /\ arr' = a
    /\ token' = FALSE
    /\ offset' = 0
    /\ ctx' = <<>>
    /\ IF maxlen = 0 \/ Len(bytes) = 0
       THEN cbor' = <<>> /\ Finish(FIDO_ERR_INTERNAL)
       ELSE /\ cbor' = bytes
            /\ ret' = ""
            /\ pc' = IF uv_required THEN "ecdh" ELSE "set_tx"

BeginWrite(a) == BeginWriteOf(a, cbor_serialize(a))

\* a get that writes the fetched array back
GetLookupRewrites(a0, f) ==
    /\ fetched' = a0
    /\ out_blob' = IF f.r = FIDO_OK THEN f.out ELSE out_blob
    /\ BeginWrite(a0)

\* get after the fetch: the lookup, f being its outcome
GetLookup(a0, f) ==
    /\ Finish(f.r)
    /\ fetched' = a0
    /\ arr' = a0
    /\ out_blob' = IF f.r = FIDO_OK THEN f.out ELSE out_blob
    /\ UNCHANGED wr_vars

\* a caller that returns success without a write when the mutator left the
\* array as it was
MutatedSkipsUnchanged(a0, m) ==
    /\ out_blob' = out_blob
    /\ fetched' = a0
    /\ IF m.r # FIDO_OK
       THEN Finish(m.r) /\ arr' = a0 /\ UNCHANGED wr_vars
       ELSE IF m.arr = a0
       THEN Finish(FIDO_OK) /\ arr' = a0 /\ UNCHANGED wr_vars
       ELSE BeginWrite(m.arr)

\* put and remove after the fetch: m is the outcome of the mutator
Mutated(a0, m) ==
    /\ out_blob' = out_blob
    /\ fetched' = a0
    /\ IF m.r # FIDO_OK
       THEN Finish(m.r) /\ arr' = a0 /\ UNCHANGED wr_vars
       ELSE BeginWrite(m.arr)

\* from the end of the fetch loop to the next suspension point or the return;
\* res is what largeblob_array_get_wait returns
AfterFetch(res) ==
    IF ~res.ok
    THEN /\ Finish(FIDO_ERR_INTERNAL)
         /\ UNCHANGED <<fetched, arr, wr_vars, out_blob>>
    ELSE IF call.op = "get"
    THEN GetLookup(res.item, largeblob_array_find(TRUE, call.key.bytes, res.item))
    ELSE IF call.op = "put"
    THEN Mutated(res.item, largeblob_array_insert(res.item, call.key.bytes, item))
    ELSE Mutated(res.item, largeblob_array_remove(res.item, call.key.bytes))

\* largeblob_array_get_tx: ok is whether fido_tx succeeds
GetTx(ok) ==
    /\ pc = "get_tx"
    /\ trace' = Append(trace, Event("rd_tx", Len(buf), maxlen, -1, FALSE,
                                    IF ok THEN "ok" ELSE "fail"))
    /\ IF ok THEN pc' = "get_rx" /\ ret' = ret ELSE Finish(FIDO_ERR_INTERNAL)
    /\ UNCHANGED <<dev_vars, cfg_vars, call, item, buf, fetched, arr, wr_vars, out_blob, hist_vars>>

\* largeblob_array_get_rx and the rest of the loop body: ok is whether fido_rx
\* delivers the reply, frag the byte string the reply holds under key 1
GetRxOf(ok, frag) ==
    /\ pc = "get_rx"
    /\ UNCHANGED <<dev_vars, cfg_vars, call, item, hist_vars>>
    /\ IF ~ok
       THEN /\ trace' = Append(trace, Event("rd_rx", Len(buf), 0, -1, FALSE, "fail"))
            /\ Finish(FIDO_ERR_INTERNAL)
            /\ UNCHANGED <<buf, fetched, arr, wr_vars, out_blob>>
       ELSE /\ trace' = Append(trace, Event("rd_rx", Len(buf), Len(frag), -1, FALSE, "ok"))
            /\ buf' = buf \o frag
            /\ IF Len(frag) = maxlen
               THEN pc' = "get_tx" /\ UNCHANGED <<ret, fetched, arr, wr_vars, out_blob>>
               ELSE AfterFetch(FetchResult(buf \o frag))

\* a loop that goes on until a fragment comes back empty
GetRxUntilEmpty(ok) ==
    /\ pc = "get_rx"
    /\ UNCHANGED <<dev_vars, cfg_vars, call, item, hist_vars>>
    /\ IF ~ok
       THEN /\ trace' = Append(trace, Event("rd_rx", Len(buf), 0, -1, FALSE, "fail"))
            /\ Finish(FIDO_ERR_INTERNAL)
            /\ UNCHANGED <<buf, fetched, arr, wr_vars, out_blob>>
       ELSE \E frag \in {DevRead(dev_bytes, Len(buf), maxlen)} :
                /\ trace' = Append(trace, Event("rd_rx", Len(buf), Len(frag), -1, FALSE, "ok"))
                /\ buf' = buf \o frag
                /\ IF Len(frag) > 0
                   THEN pc' = "get_tx" /\ UNCHANGED <<ret, fetched, arr, wr_vars, out_blob>>
                   ELSE AfterFetch(FetchResult(buf \o frag))

\* the reply of an authenticator that answers with the stored bytes asked for
GetRx(ok) == \E frag \in {DevRead(dev_bytes, Len(buf), maxlen)} : GetRxOf(ok, frag)

(***************************************************************************)
(* The writer: token acquisition and the fragment loop.                    *)
(***************************************************************************)
\* fido_do_ecdh: ok is whether the key agreement succeeds
DoEcdh(ok) ==
    /\ pc = "ecdh"
    /\ trace' = Append(trace, Event("ecdh", 0, 0, -1, FALSE, IF ok THEN "ok" ELSE "fail"))
    /\ IF ok THEN pc' = "token" /\ ret' = ret ELSE Finish(FIDO_ERR_RX)
    /\ UNCHANGED <<dev_vars, cfg_vars, call, item, buf, fetched, arr, wr_vars, out_blob, hist_vars>>

\* fido_dev_get_uv_token: ok is whether the authenticator grants the token
GetUvToken(ok) ==
    /\ pc = "token"
    /\ trace' = Append(trace, Event("token", 0, 0, -1, FALSE, IF ok THEN "ok" ELSE "fail"))
    /\ token' = ok
    /\ IF ok THEN pc' = "set_tx" /\ ret' = ret ELSE Finish(FIDO_ERR_PIN_INVALID)
    /\ UNCHANGED <<dev_vars, cfg_vars, call, item, buf, fetched, arr, cbor, offset, ctx, out_blob,
                   hist_vars>>

\* whether the next fragment is a body fragment (the while loop is running)
InBody == offset < Len(cbor)

\* len of the fragment at offset
FragLen ==
    IF InBody THEN Min(maxlen, Len(cbor) - offset) ELSE LARGEBLOB_DIGEST_LENGTH

\* a trailer taken from the wrong end of the digest
FragmentDigestTail ==
    IF InBody THEN Slice(cbor, offset, FragLen)
    ELSE SubSeq(SHA256(ctx), LARGEBLOB_DIGEST_LENGTH + 1, SHA256_DIGEST_LENGTH)

\* the fragment at offset: a chunk of the body, or the head of the digest
Fragment ==
    IF InBody THEN Slice(cbor, offset, FragLen)
    ELSE SubSeq(SHA256(ctx), 1, LARGEBLOB_DIGEST_LENGTH)

\* SHA256_Update and largeblob_array_set_tx for the fragment at offset: ok is
\* whether fido_tx succeeds, accept whether the authenticator takes the fragment
SetTx(ok, accept) ==
    /\ pc = "set_tx"
    /\ \E tx \in {largeblob_array_set_tx(token, Fragment, offset,
                                          Len(cbor) + LARGEBLOB_DIGEST_LENGTH)} :
       \E d \in {DevWrite(dev_bytes, dev_wr, dev_total, tx.frame)} :
           /\ ctx' = IF InBody THEN ctx \o Fragment ELSE ctx
           /\ IF tx.r # FIDO_OK
              THEN /\ ok /\ accept
                   /\ Finish(tx.r)
                   /\ UNCHANGED <<trace, dev_vars>>
              ELSE /\ trace' = Append(trace, WriteEvent(offset, tx.frame.set, tx.frame.total,
                                                        tx.frame.auth,
                                                        IF ok THEN "ok" ELSE "fail"))
                   /\ IF ~ok
                      THEN accept /\ Finish(FIDO_ERR_TX) /\ UNCHANGED dev_vars
                      ELSE /\ pc' = "set_rx"
                           /\ ret' = ret
                           /\ IF accept
                              THEN /\ dev_bytes' = d.bytes
                                   /\ dev_wr' = d.wr
                                   /\ dev_total' = d.total
                                   /\ dev_reply' = d.st
                              ELSE /\ dev_reply' = FIDO_ERR_PIN_AUTH_INVALID
                                   /\ UNCHANGED <<dev_bytes, dev_wr, dev_total>>
    /\ UNCHANGED <<cfg_vars, call, item, buf, fetched, arr, cbor, offset, token, out_blob, hist_vars>>

\* a loop that goes on to the next fragment whatever the status reply says
SetRxIgnoresStatus(ok) ==
    /\ pc = "set_rx"
    /\ dev_reply' = ""
    /\ trace' = Append(trace, Event("wr_rx", offset, 0, -1, FALSE,
                                    IF ok THEN dev_reply ELSE "fail"))
    /\ IF ~ok THEN Finish(FIDO_ERR_RX) /\ offset' = offset
       ELSE IF InBody THEN pc' = "set_tx" /\ ret' = ret /\ offset' = offset + FragLen
       ELSE Finish(FIDO_OK) /\ offset' = offset
    /\ UNCHANGED <<dev_bytes, dev_wr, dev_total, cfg_vars, call, item, buf, fetched, arr, cbor, ctx,
                   token, out_blob, hist_vars>>

\* fido_rx_cbor_status and the rest of the loop body: ok is whether fido_rx
\* delivers the status reply
SetRx(ok) ==
    /\ pc = "set_rx"
    /\ dev_reply' = ""
    /\ trace' = Append(trace, Event("wr_rx", offset, 0, -1, FALSE,
                                    IF ok THEN dev_reply ELSE "fail"))
    /\ IF ~ok THEN Finish(FIDO_ERR_RX) /\ offset' = offset
       ELSE IF dev_reply # FIDO_OK THEN Finish(dev_reply) /\ offset' = offset
       ELSE IF InBody THEN pc' = "set_tx" /\ ret' = ret /\ offset' = offset + FragLen
       ELSE Finish(FIDO_OK) /\ offset' = offset
    /\ UNCHANGED <<dev_bytes, dev_wr, dev_total, cfg_vars, call, item, buf, fetched, arr, cbor, ctx,
                   token, out_blob, hist_vars>>

\* whether a transport or authenticator failure was injected
Faulty(tr) == \E i \in 1..Len(tr) : tr[i].st \notin {"ok", FIDO_OK}

\* the operation returns to the caller, who may call again; by then the
\* authenticator has discarded an unfinished write (its session timeout)
Return ==
    /\ pc = "done"
    /\ pc' = "idle"
    /\ prev' = IF call.op = "put" /\ ret = FIDO_OK
                THEN [op |-> "put", key |-> call.key.bytes, pt |-> call.blob.bytes]
                ELSE NoPrev
    /\ nops' = nops + 1
    /\ call' = NoCall
    /\ item' = NoItem
    /\ buf' = <<>>
    /\ fetched' = NoItem
    /\ arr' = NoItem
    /\ cbor' = <<>>
    /\ offset' = 0
    /\ ctx' = <<>>
    /\ token' = FALSE
    /\ ret' = ""
    /\ trace' = <<>>
    /\ dev0' = <<>>
    /\ out_blob' = <<>>
    /\ dev_wr' = <<>>
    /\ dev_total' = 0
    /\ UNCHANGED <<dev_bytes, dev_reply, cfg_vars>>

Next ==
    \/ \E c \in GetCalls : fido_dev_largeblob_get(c)
    \/ \E c \in PutCalls, n \in Nonces : fido_dev_largeblob_put(c, n)
    \/ \E c \in RemoveCalls : fido_dev_largeblob_remove(c)
    \/ \E ok \in BOOLEAN : GetTx(ok)
    \/ \E ok \in BOOLEAN : GetRx(ok)
    \/ \E ok \in BOOLEAN : DoEcdh(ok)
    \/ \E ok \in BOOLEAN : GetUvToken(ok)
    \/ \E ok \in BOOLEAN, accept \in BOOLEAN : SetTx(ok, accept)
    \/ \E ok \in BOOLEAN : SetRx(ok)
    \/ Return

Spec == Init /\ [][Next]_vars

(***************************************************************************)
(* The mutators on their own: every array of up to MaxArrayLen elements    *)
(* drawn from Elements is handed to largeblob_array_insert and             *)
(* largeblob_array_remove.                                                 *)
(***************************************************************************)
MaxArrayLen == 2

ElemK1b == largeblob_encode(P2, K1, N2).item
ElemK2 == largeblob_encode(P2, K2, N1).item
\* valid elements, one without origSize, and an item that is not a map
Elements == {ElemK1, ElemK1b, ElemK2, ElemNoSize, cbor_build_uint(5)}

RECURSIVE SeqsUpTo(_, _)
SeqsUpTo(S, n) ==
    IF n = 0 THEN {<<>>}
    ELSE SeqsUpTo(S, n - 1) \cup {Append(q, e) : q \in {x \in SeqsUpTo(S, n - 1) : Len(x) = n - 1}, e \in S}

Arrays == {cbor_new_definite_array(q) : q \in SeqsUpTo(Elements, MaxArrayLen)}

MutInit ==
    /\ fetched \in Arrays
    /\ dev_bytes = <<>>
    /\ dev_wr = <<>>
    /\ dev_total = 0
    /\ dev_reply = ""
    /\ maxmsgsize = 1200
    /\ uv_required = FALSE
    /\ pc = "idle"
    /\ call = NoCall
    /\ item = NoItem
    /\ buf = <<>>
    /\ arr = NoItem
    /\ cbor = <<>>
    /\ offset = 0
    /\ ctx = <<>>
    /\ token = FALSE
    /\ ret = ""
    /\ out_blob = <<>>
    /\ trace = <<>>
    /\ dev0 = <<>>
    /\ prev = NoPrev
    /\ nops = 0

MutFrame ==
    UNCHANGED <<dev_vars, cfg_vars, buf, fetched, wr_vars, out_blob, trace, dev0, prev, nops>>

\* the outcome m of a mutator becomes the state
MutDone(m) == pc' = "done" /\ ret' = m.r /\ arr' = m.arr

\* put's element for (key, pt), sealed with nonce, goes into the array
ArrayInsert(key, pt, nonce) ==
    /\ pc = "idle"
    /\ call' = [op |-> "put", key |-> [null |-> FALSE, bytes |-> key, len |-> KEY_LENGTH],
                blob |-> [null |-> FALSE, bytes |-> pt], nonce |-> nonce]
    /\ \E enc \in {largeblob_encode(pt, key, nonce)} :
           /\ enc.ok
           /\ item' = enc.item
           /\ MutDone(largeblob_array_insert(fetched, key, enc.item))
    /\ MutFrame

ArrayRemove(key) ==
    /\ pc = "idle"
    /\ call' = [op |-> "remove", key |-> [null |-> FALSE, bytes |-> key, len |-> KEY_LENGTH],
                blob |-> NoBlobArg, nonce |-> <<>>]
    /\ item' = NoItem
    /\ MutDone(largeblob_array_remove(fetched, key))
    /\ MutFrame

MutNext ==
    \/ \E k \in Keys, b \in Blobs, n \in Nonces : ArrayInsert(k, b, n)
    \/ \E k \in Keys : ArrayRemove(k)

SpecMut == MutInit /\ [][MutNext]_vars

(***************************************************************************)
(* The traversals on their own: every array of TrimArrays is handed to     *)
(* remove_unknown_blobs with every list of keys and to                     *)
(* largeblob_array_find with every key.                                    *)
(***************************************************************************)
\* a map with a ciphertext only, and one with a nonce and an origSize only
ElemCtOnly == cbor_new_definite_map(SubSeq(ElemK1.c, 1, 2))
ElemNoCt == cbor_new_definite_map(SubSeq(ElemK1.c, 3, 6))

TrimArrays ==
    {cbor_new_definite_array(q) :
        q \in SeqsUpTo(Elements \cup {ElemCtOnly, ElemNoCt}, MaxArrayLen)}

\* the key lists list_largeblob_keys can hand over
KeyLists == {<<>>, <<K1>>, <<K2>>, <<K1, K2>>, <<K2, K1>>}

TrimInit ==
    /\ fetched \in TrimArrays
    /\ dev_bytes = <<>>
    /\ dev_wr = <<>>
    /\ dev_total = 0
    /\ dev_reply = ""
    /\ maxmsgsize = 1200
    /\ uv_required = FALSE
    /\ pc = "idle"
    /\ call = NoCall
    /\ item = NoItem
    /\ buf = <<>>
    /\ arr = NoItem
    /\ cbor = <<>>
    /\ offset = 0
    /\ ctx = <<>>
    /\ token = FALSE
    /\ ret = ""
    /\ out_blob = <<>>
    /\ trace = <<>>
    /\ dev0 = <<>>
    /\ prev = NoPrev
    /\ nops = 0

\* the array is rebuilt against keys
ArrayTrim(keys) ==
    /\ pc = "idle"
    /\ call' = [op |-> "trim", key |-> [null |-> FALSE, bytes |-> keys, len |-> Len(keys)],
                blob |-> NoBlobArg, nonce |-> <<>>]
    /\ item' = NoItem
    /\ MutDone(remove_unknown_blobs(fetched, keys))
    /\ MutFrame

\* the array is searched for the element of key, as get does
ArrayFind(key) ==
    /\ pc = "idle"
    /\ call' = [op |-> "find", key |-> [null |-> FALSE, bytes |-> key, len |-> KEY_LENGTH],
                blob |-> NoBlobArg, nonce |-> <<>>]
    /\ item' = NoItem
    /\ \E f \in {largeblob_array_find(TRUE, key, fetched)} :
           pc' = "done" /\ ret' = f.r /\ out_blob' = f.out
    /\ UNCHANGED <<dev_vars, cfg_vars, buf, fetched, arr, wr_vars, trace, dev0, prev, nops>>

TrimNext ==
    \/ \E keys \in KeyLists : ArrayTrim(keys)
    \/ \E k \in Keys : ArrayFind(k)

SpecTrim == TrimInit /\ [][TrimNext]_vars

(***************************************************************************)
(* prepare_hmac on its own: it is called twice on every offset of          *)
(* HmacOffsets and every fragment of HmacFragments.                        *)
(***************************************************************************)
\* size_t offsets by their bytes: small ones, the largest that fit 32 bits,
\* and ones beyond, among them multiples of 2^32 whose low half is 0 or 16
HmacOffsets ==
    {SizeT(0), SizeT(16), SizeT(1136), SizeT(66000), SizeT(16777216 + 255),
     <<255, 255, 255, 255, 0, 0, 0, 0>>, <<254, 255, 255, 255, 0, 0, 0, 0>>,
     <<0, 0, 0, 0, 1, 0, 0, 0>>, <<16, 0, 0, 0, 1, 0, 0, 0>>,
     <<16, 0, 0, 0, 0, 0, 0, 128>>, <<255, 255, 255, 255, 255, 255, 255, 255>>,
     <<0, 0, 0, 0, 0, 1, 0, 0>>}

HmacFragments ==
    {<<>>, <<0>>, <<1>>, P1, <<105, 104>>, SubSeq(ImageFresh, 2, 17), cbor_serialize(ElemK1)}

\* the number of calls made on one input
MaxHmacCalls == 2

HmacInit ==
    /\ offset \in HmacOffsets
    /\ buf \in HmacFragments
    /\ dev_bytes = <<>>
    /\ dev_wr = <<>>
    /\ dev_total = 0
    /\ dev_reply = ""
    /\ maxmsgsize = 1200
    /\ uv_required = TRUE
    /\ pc = "idle"
    /\ call = NoCall
    /\ item = NoItem
    /\ fetched = NoItem
    /\ arr = NoItem
    /\ cbor = <<>>
    /\ ctx = <<>>
    /\ token = TRUE
    /\ ret = ""
    /\ out_blob = <<>>
    /\ trace = <<>>
    /\ dev0 = <<>>
    /\ prev = NoPrev
    /\ nops = 0

\* one call of prepare_hmac(offset, buf): out_blob is what hmac holds
\* afterwards, prev what the call before it gave
PrepareHmac ==
    /\ pc \in {"idle", "done"}
    /\ nops < MaxHmacCalls
    /\ call' = [NoCall EXCEPT !.op = "hmac"]
    /\ prev' = [op |-> call.op, key |-> ret, pt |-> out_blob]
    /\ \E h \in {prepare_hmac(offset, buf)} :
           pc' = "done" /\ ret' = h.rc /\ out_blob' = h.hmac
    /\ nops' = nops + 1
    /\ UNCHANGED <<dev_vars, cfg_vars, item, buf, fetched, arr, wr_vars, trace, dev0>>

SpecHmac == HmacInit /\ [][PrepareHmac]_vars

(***************************************************************************)
(* largeblob_decode on its own: the elements of every array of up to       *)
(* MaxArrayLen items drawn from DecodeItems are decoded one after the      *)
(* other into the scratch largeblob_t of a traversal, which is reset       *)
(* between two elements as the loop of largeblob_array_find or as the loop *)
(* of remove_unknown_blobs resets it.                                      *)
(***************************************************************************)
\* the integer 1 encoded in 16 bits
WideKey == Item("uint", 1, 16, <<>>, <<>>, TRUE)

\* the items handed to largeblob_decode: a valid element; elements without
\* origSize, without nonce and origSize, without ct; an integer; a valid element
\* with a further entry under key 7, under a 16-bit key 1, under a byte-string
\* key; the ct under a 16-bit key 1; a ct of 15 bytes; a nonce of 13 bytes; an
\* origSize of 0; an origSize that is a byte string; an indefinite map
DecodeItems ==
    {ElemK1, ElemNoSize, ElemCtOnly, ElemNoCt, cbor_build_uint(5),
     cbor_new_definite_map(ElemK1.c \o <<cbor_build_uint8(7), cbor_build_bytestring(<<1>>)>>),
     cbor_new_definite_map(<<WideKey, cbor_build_bytestring(<<1, 2>>)>> \o ElemK1.c),
     cbor_new_definite_map(<<cbor_build_bytestring(<<1>>), cbor_build_uint(0)>> \o ElemK1.c),
     cbor_new_definite_map(<<WideKey>> \o Tail(ElemK1.c)),
     cbor_new_definite_map([ElemK1.c EXCEPT ![2] = cbor_build_bytestring(Rep(9, 15))]),
     cbor_new_definite_map([ElemK1.c EXCEPT ![4] = cbor_build_bytestring(Rep(9, 13))]),
     cbor_new_definite_map([ElemK1.c EXCEPT ![6] = cbor_build_uint(0)]),
     cbor_new_definite_map([ElemK1.c EXCEPT ![6] = cbor_build_bytestring(<<2>>)]),
     [ElemK1 EXCEPT !.d = FALSE]}

\* call.op names the loop that calls largeblob_decode
DecodeInit ==
    /\ fetched \in {cbor_new_definite_array(q) : q \in SeqsUpTo(DecodeItems, MaxArrayLen)}
    /\ call \in {[NoCall EXCEPT !.op = m] : m \in {"find", "trim"}}
    /\ prev = largeblob_new
    /\ dev_bytes = <<>>
    /\ dev_wr = <<>>
    /\ dev_total = 0
    /\ dev_reply = ""
    /\ maxmsgsize = 1200
    /\ uv_required = FALSE
    /\ pc = "idle"
    /\ item = NoItem
    /\ buf = <<>>
    /\ arr = NoItem
    /\ cbor = <<>>
    /\ offset = 0
    /\ ctx = <<>>
    /\ token = FALSE
    /\ ret = ""
    /\ out_blob = <<>>
    /\ trace = <<>>
    /\ dev0 = <<>>
    /\ nops = 0

\* the scratch blob at the head of the next iteration, d being the outcome of
\* the decode of this one and no key opening the element: largeblob_array_find
\* resets it, remove_unknown_blobs resets it when the decode succeeded
ScratchAfter(loop, d) ==
    IF loop = "find" \/ d.rc = 0 THEN largeblob_reset(d.blob) ELSE d.blob

\* one iteration: element nops of the array is decoded into the scratch blob
\* prev; item is the element and ret what largeblob_decode returned
DecodeElem ==
    /\ pc \in {"idle", "decoded"}
    /\ nops < cbor_array_size(fetched)
    /\ item' = fetched.c[nops + 1]
    /\ \E d \in {largeblob_decode(prev, fetched.c[nops + 1])} :
           ret' = d.rc /\ prev' = ScratchAfter(call.op, d)
    /\ pc' = "decoded"
    /\ nops' = nops + 1
    /\ UNCHANGED <<dev_vars, cfg_vars, call, buf, fetched, arr, wr_vars, out_blob, trace, dev0>>

SpecDecode == DecodeInit /\ [][DecodeElem]_vars

(***************************************************************************)
(* The fetch loop against an authenticator that answers a read with a      *)
(* fragment of any length: up to MaxFetchRounds rounds of the loop of      *)
(* largeblob_array_get_wait with a chunk length of 16.                     *)
(***************************************************************************)
MaxFetchRounds == 3

\* lengths of the byte string in a reply: none, short, the count asked for,
\* longer than asked for
ReplyLens == {0, 1, 15, 16, 17, 32}

FetchInit == Init /\ maxmsgsize = 80 /\ dev_bytes \in {ImageFresh, ImageOne}

\* a read request, while the rounds are within the bound
FetchTx(ok) ==
    /\ Len(trace) < 2 * MaxFetchRounds
    /\ GetTx(ok)

\* a reply with a fragment of n bytes
FetchRx(ok, n) == GetRxOf(ok, Rep(171, n))

FetchNext ==
    \/ \E c \in GetCalls : fido_dev_largeblob_get(c)
    \/ \E c \in RemoveCalls : fido_dev_largeblob_remove(c)
    \/ \E ok \in BOOLEAN : FetchTx(ok)
    \/ \E ok \in BOOLEAN, n \in ReplyLens : FetchRx(ok, n)

SpecFetch == FetchInit /\ [][FetchNext]_vars

(***************************************************************************)
(* Properties of the public operations.  A completed operation is a state  *)
(* with pc = "done": call holds its arguments, ret its return value, trace *)
(* its transport events, dev0 the stored bytes at the call.                *)
(***************************************************************************)
\* a call whose arguments pass the validation the interface describes
ValidCall(c) ==
    /\ ~c.key.null /\ c.key.len = 32
    /\ c.op \in {"get", "put"} => ~c.blob.null
    /\ c.op = "put" => c.blob.bytes # <<>>

\* op has completed with valid arguments, no transport or authenticator
\* failure, and a usable chunk length
CleanRun(op) ==
    /\ pc = "done"
    /\ call.op = op
    /\ ValidCall(call)
    /\ maxlen > 0
    /\ ~Faulty(trace)

\* C1: once put(K, P) has returned success against a device that stores what
\* it was sent, an immediately following get(K) returns success and its output
\* blob equals P.
C1_PutThenGet ==
    (CleanRun("get") /\ prev.op = "put" /\ prev.key = call.key.bytes)
        => (ret = FIDO_OK /\ out_blob = prev.pt)

\* C2: get with a valid key on a fresh authenticator (the serialized empty
\* array followed by its digest) returns FIDO_ERR_NOTFOUND.
C2_FreshGetNotFound ==
    (CleanRun("get") /\ dev0 = ImageFresh) => ret = FIDO_ERR_NOTFOUND

\* C3: on a device where put(K, P) succeeded, remove(K) returns success (the
\* first step of remove; get; remove).
C3_RemoveAfterPut ==
    (CleanRun("remove") /\ prev.op = "put" /\ prev.key = call.key.bytes)
        => ret = FIDO_OK

\* C4: get, put and remove with a null key, a key length other than 32, a null
\* blob (get, put) or an empty blob (put) return FIDO_ERR_INVALID_ARGUMENT at
\* once: nothing is transmitted and the device is unchanged; get leaves the
\* caller's blob as it was in that case and resets it once the arguments have
\* passed.
C4_InvalidArgument ==
    call.op # "none" =>
        /\ ~ValidCall(call) =>
              /\ pc = "done"
              /\ ret = FIDO_ERR_INVALID_ARGUMENT
              /\ trace = <<>>
              /\ dev_bytes = dev0 /\ dev_wr = <<>> /\ dev_total = 0
              /\ (call.op = "get" /\ ~call.blob.null) => out_blob = call.blob.bytes
        /\ (call.op = "get" /\ ValidCall(call)) =>
              \/ out_blob = <<>>
              \/ pc = "done" /\ ret = FIDO_OK

\* a get with a 31-byte key has returned, the caller's blob untouched
C4_Witness ==
    /\ pc = "done" /\ call.op = "get"
    /\ ~call.key.null /\ call.key.len = 31 /\ ~call.blob.null
    /\ ret = FIDO_ERR_INVALID_ARGUMENT
    /\ out_blob = <<9>>
    /\ dev0 = ImagePadded

\* a get whose arguments passed has failed and left the blob reset
C4_ResetSeen ==
    /\ pc = "done" /\ call.op = "get" /\ ValidCall(call)
    /\ ret = FIDO_ERR_NOTFOUND /\ out_blob = <<>>

\* C5: largeblob_array_insert(A, K, E) is insert-or-replace: when find(A, K)
\* succeeds at index i the result has the length of A and holds E at i; when
\* find returns not-found the result is A with E appended; so the length is
\* that of A or one more; any other find error is returned with A unchanged.
C5_InsertOrReplace ==
    (pc = "done" /\ call.op = "put" /\ fetched # NoItem) =>
        LET f == largeblob_array_find(FALSE, call.key.bytes, fetched)
            A == fetched.c
            B == arr.c
        IN  /\ f.r = FIDO_OK =>
                  ret = FIDO_OK /\ Len(B) = Len(A) /\ B[f.index + 1] = item
            /\ f.r = FIDO_ERR_NOTFOUND =>
                  ret = FIDO_OK /\ B = Append(A, item)
            /\ f.r \notin {FIDO_OK, FIDO_ERR_NOTFOUND} =>
                  ret = f.r /\ arr = fetched
            /\ ret = FIDO_OK => Len(B) \in {Len(A), Len(A) + 1}

\* the element for K1 at index 1 of a two-element array has been replaced
C5_Witness ==
    /\ pc = "done" /\ call.op = "put" /\ call.key.bytes = K1
    /\ fetched.c = <<ElemK2, ElemK1>>
    /\ call.blob.bytes = P2
    /\ item = ElemK1b
    /\ arr.c = <<ElemK2, ElemK1b>>
    /\ ret = FIDO_OK

\* an element for K2 has been appended to an array that held none
C5_Appended ==
    /\ pc = "done" /\ call.op = "put" /\ call.key.bytes = K2
    /\ fetched.c = <<ElemNoSize, ElemK1>>
    /\ arr.c = <<ElemNoSize, ElemK1, ElemK2>>
    /\ ret = FIDO_OK

\* the bytes the fetcher assembled are complete: a short fragment came back
FetchComplete ==
    \E i \in 1..Len(trace) :
        trace[i].k = "rd_rx" /\ trace[i].st = "ok" /\ trace[i].len < maxlen

\* what the claim calls not verifying or too short, from the bytes alone
Unverified(bytes) ==
    \/ Len(bytes) <= 16
    \/ SubSeq(bytes, Len(bytes) - 15, Len(bytes))
         # SubSeq(SHA256(SubSeq(bytes, 1, Len(bytes) - 16)), 1, 16)

\* C6: when the assembled bytes do not verify or are at most 16 bytes long the
\* fetcher yields an empty definite array, not an error: get returns
\* FIDO_ERR_NOTFOUND, and a put that succeeds leaves on the device an array of
\* exactly one element, the new one.
C6_CorruptIsEmpty ==
    (call.op # "none" /\ ValidCall(call) /\ FetchComplete /\ Unverified(buf)) =>
        /\ fetched = cbor_new_definite_array(<<>>)
        /\ (pc = "done" /\ call.op = "get") => ret = FIDO_ERR_NOTFOUND
        /\ (pc = "done" /\ call.op = "put") =>
              /\ arr = cbor_new_definite_array(<<item>>)
              /\ ret # FIDO_ERR_INTERNAL
              /\ ret = FIDO_OK =>
                    dev_bytes = Image(cbor_serialize(cbor_new_definite_array(<<item>>)))

\* a put on a device whose digest has a flipped byte has succeeded
C6_Witness ==
    /\ pc = "done" /\ call.op = "put" /\ ret = FIDO_OK
    /\ dev0 = ImageCorrupt
    /\ buf = ImageCorrupt
    /\ dev_bytes = Image(cbor_serialize(cbor_new_definite_array(<<item>>)))

\* a get on a device whose array body has a changed byte has returned not-found
C6_BodySeen ==
    /\ pc = "done" /\ call.op = "get" /\ ret = FIDO_ERR_NOTFOUND
    /\ buf = ImageCorruptBody

\* a get on a device that stores 16 bytes has returned not-found
C6_ShortSeen ==
    /\ pc = "done" /\ call.op = "get" /\ ret = FIDO_ERR_NOTFOUND
    /\ buf = ImageShort

\* s without its element at 0-based index i
Without(s, i) == SubSeq(s, 1, i) \o SubSeq(s, i + 2, Len(s))

\* the elements of s that do not decode and open under key, in order
RECURSIVE Unopened(_, _)
Unopened(s, key) ==
    IF s = <<>> THEN <<>>
    ELSE LET d == largeblob_decode(largeblob_new, Head(s))
         IN  (IF d.rc = 0 /\ largeblob_pt(d.blob, key).ok THEN <<>> ELSE <<Head(s)>>)
                 \o Unopened(Tail(s), key)

\* C7: insert and remove change at most the slot at the index find(A, K)
\* returns: every other element stays, in the same order; an element that does
\* not decode is neither replaced nor dropped.
C7_OneSlot ==
    (pc = "done" /\ call.op \in {"put", "remove"} /\ fetched # NoItem) =>
        LET f == largeblob_array_find(FALSE, call.key.bytes, fetched)
            A == fetched.c
            B == arr.c
        IN  /\ (f.r = FIDO_OK /\ call.op = "put") =>
                  Len(B) = Len(A) /\ Without(B, f.index) = Without(A, f.index)
            /\ (f.r = FIDO_OK /\ call.op = "remove") => B = Without(A, f.index)
            /\ (f.r # FIDO_OK /\ call.op = "put") => SubSeq(B, 1, Len(A)) = A
            /\ (f.r # FIDO_OK /\ call.op = "remove") => B = A
            /\ Unopened(B, call.key.bytes) = Unopened(A, call.key.bytes)

\* K1 has been removed from [non-conformant, valid for K1], leaving the
\* one-element array [non-conformant]
C7_Witness ==
    /\ pc = "done" /\ call.op = "remove" /\ call.key.bytes = K1
    /\ fetched.c = <<ElemNoSize, ElemK1>>
    /\ arr.c = <<ElemNoSize>>
    /\ ret = FIDO_OK

\* C8: a fragment transmit or receive failure, while reading the array or
\* while writing it, is returned as FIDO_ERR_TX or FIDO_ERR_RX respectively.
C8_TransportSurfaced ==
    (pc = "done" /\ trace # <<>>) =>
        LET e == trace[Len(trace)]
        IN  /\ (e.k \in {"rd_tx", "wr_tx"} /\ e.st = "fail") => ret = FIDO_ERR_TX
            /\ (e.k \in {"rd_rx", "wr_rx"} /\ e.st = "fail") => ret = FIDO_ERR_RX

\* the write-phase part of C8, which the code does keep: a failure of a write
\* fragment's transmit or of its status receive is returned as such
C8_WritePhase ==
    (pc = "done" /\ trace # <<>>) =>
        LET e == trace[Len(trace)]
        IN  /\ (e.k = "wr_tx" /\ e.st = "fail") => ret = FIDO_ERR_TX
            /\ (e.k = "wr_rx" /\ e.st = "fail") => ret = FIDO_ERR_RX

\* the write events of a trace, in order
RECURSIVE Writes(_)
Writes(tr) ==
    IF tr = <<>> THEN <<>>
    ELSE (IF Head(tr).k \in {"wr_tx", "wr_rx"} THEN <<Head(tr)>> ELSE <<>>) \o Writes(Tail(tr))

\* the sum of the fragment lengths transmitted before position i of w
RECURSIVE SentBefore(_, _)
SentBefore(w, i) ==
    IF i <= 1 THEN 0
    ELSE SentBefore(w, i - 1) + (IF w[i - 1].k = "wr_tx" THEN w[i - 1].len ELSE 0)

\* C9: in a write the fragments go out in strictly increasing offset, each at
\* the sum of the lengths already transmitted; a fragment is transmitted only
\* after the previous one's status reply came back as success; after the first
\* transmit failure or non-success status nothing more is transmitted, and the
\* operation returns that failure.
C9_WriteOrdering ==
    LET w == Writes(trace)
    IN  /\ \A i \in 1..Len(w) :
              /\ w[i].k = (IF i % 2 = 1 THEN "wr_tx" ELSE "wr_rx")
              /\ w[i].k = "wr_tx" =>
                    /\ w[i].len > 0
                    /\ w[i].off = SentBefore(w, i)
                    /\ i > 1 => w[i - 1].st = FIDO_OK
                    /\ i > 2 => w[i - 2].off < w[i].off
              /\ w[i].k = "wr_rx" => w[i - 1].st = "ok"
              /\ w[i].st \notin {"ok", FIDO_OK} =>
                    /\ i = Len(w)
                    /\ trace[Len(trace)] = w[i]
                    /\ pc = "done"
                    /\ ret = (IF w[i].st # "fail" THEN w[i].st
                              ELSE IF w[i].k = "wr_tx" THEN FIDO_ERR_TX ELSE FIDO_ERR_RX)

\* a write of several fragments was refused by the authenticator at its third
\* fragment and returned that status
C9_Witness ==
    /\ pc = "done" /\ call.op = "put"
    /\ Len(Writes(trace)) = 6
    /\ Writes(trace)[6].st = FIDO_ERR_PIN_AUTH_INVALID
    /\ Writes(trace)[5].off = 32
    /\ ret = FIDO_ERR_PIN_AUTH_INVALID

\* a write has failed at the transmit of its second fragment
C9_TxFailSeen ==
    /\ pc = "done"
    /\ Len(Writes(trace)) = 3
    /\ Writes(trace)[3].st = "fail"
    /\ ret = FIDO_ERR_TX

Ceil(a, b) == (a + b - 1) \div b

\* the transmit rounds of the write
Rounds == Len(Writes(trace)) \div 2

\* min(M, cap) - 64 as the claim writes it
ClaimedChunk == Min(maxmsgsize, 2048) - 64

\* a write has completed with success
WriteSucceeded == pc = "done" /\ call.op \in {"put", "remove"} /\ ret = FIDO_OK

\* C10 as stated: a successful write of a body of |B| bytes takes exactly
\* ceil((|B| + 16) / chunk) transmit rounds, chunk = min(M, cap) - 64.
C10_RoundsAsStated ==
    WriteSucceeded =>
        /\ ClaimedChunk > 0
        /\ Rounds = Ceil(Len(cbor_serialize(arr)) + 16, ClaimedChunk)

\* C10 (amended): a successful write of a body of |B| bytes takes exactly
\* ceil(|B| / chunk) + 1 transmit rounds, chunk = min(M, cap) - 64: the body
\* in chunks, then the 16-byte trailer in a fragment of its own.
C10_Rounds ==
    WriteSucceeded =>
        /\ ClaimedChunk > 0
        /\ Rounds = Ceil(Len(cbor_serialize(arr)), ClaimedChunk) + 1
        /\ dev_bytes = Image(cbor_serialize(arr))

\* a body that fits one chunk together with its trailer took two rounds
C10_Witness ==
    /\ WriteSucceeded
    /\ maxmsgsize = 1200
    /\ Len(cbor_serialize(arr)) + 16 < ClaimedChunk
    /\ Rounds = 2

\* a body of several 16-byte chunks
C10_ManySeen ==
    /\ WriteSucceeded
    /\ maxmsgsize = 80
    /\ Rounds > 4
    /\ Len(cbor_serialize(arr)) % 16 # 0

\* the transmits among the write events of a trace, in order
RECURSIVE Transmits(_)
Transmits(tr) ==
    IF tr = <<>> THEN <<>>
    ELSE (IF Head(tr).k = "wr_tx" THEN <<Head(tr)>> ELSE <<>>) \o Transmits(Tail(tr))

\* the write has transmitted its trailer: a fragment at the offset |B|
TrailerSent ==
    /\ cbor # <<>>
    /\ \E i \in 1..Len(trace) :
          trace[i].k = "wr_tx" /\ trace[i].st = "ok" /\ trace[i].off = Len(cbor)

\* C11: once a write of the array A with body B = serialize(A) has transmitted
\* its last fragment, the payloads placed at their offsets form B followed by
\* the leading 16 bytes of SHA-256(B): the last fragment is the 16-byte trailer
\* at offset |B|, the first fragment announces |B| + 16, the image verifies,
\* and a device that accepted every fragment stores exactly that image.
C11_TrailerDigest ==
    TrailerSent =>
        LET B     == cbor_serialize(arr)
            image == B \o SubSeq(SHA256(B), 1, 16)
            t     == Transmits(trace)
        IN  /\ \A i \in 1..Len(t) :
                  t[i].set = SubSeq(image, t[i].off + 1, t[i].off + t[i].len)
            /\ t[1].off = 0 /\ t[1].total = Len(B) + 16
            /\ t[Len(t)].off = Len(B) /\ t[Len(t)].len = 16
            /\ t[Len(t)].off + t[Len(t)].len = Len(image)
            /\ ~Unverified(image)
            /\ WriteSucceeded => dev_bytes = image

\* a body of several chunks and its trailer have been written and stored
C11_Witness ==
    /\ WriteSucceeded /\ TrailerSent
    /\ maxmsgsize = 80
    /\ Len(Transmits(trace)) >= 4
    /\ Transmits(trace)[Len(Transmits(trace))].set
         = SubSeq(SHA256(cbor_serialize(arr)), 1, 16)
    /\ dev_bytes = cbor_serialize(arr) \o SubSeq(SHA256(cbor_serialize(arr)), 1, 16)

\* does element e, decoded on its own, open under one of keys?
OpensAlone(e, keys) ==
    /\ largeblob_decode(largeblob_new, e).rc = 0
    /\ \E j \in 1..Len(keys) : largeblob_pt(largeblob_decode(largeblob_new, e).blob, keys[j]).ok

\* the elements of s the trim is to keep: those that fail to decode and those
\* that open under some key, in order
RECURSIVE Retained(_, _)
Retained(s, keys) ==
    IF s = <<>> THEN <<>>
    ELSE (IF largeblob_decode(largeblob_new, Head(s)).rc # 0 \/ OpensAlone(Head(s), keys)
          THEN <<Head(s)>> ELSE <<>>) \o Retained(Tail(s), keys)

\* C12: a trim of any array against any key set keeps, in their order, exactly
\* the elements that fail to decode or open under some key, and drops every
\* element that decodes but opens under no key, whatever precedes it
C12_TrimRetains ==
    (pc = "done" /\ call.op = "trim") =>
        /\ ret = FIDO_OK
        /\ arr = cbor_new_definite_array(Retained(fetched.c, call.key.bytes))

\* a trim where a map without a ciphertext follows a map with a ciphertext only
C12_CarriedOver ==
    /\ pc = "done" /\ call.op = "trim"
    /\ fetched.c = <<ElemCtOnly, ElemNoCt>>
    /\ call.key.bytes = <<K2>>
    /\ arr.c = <<ElemCtOnly>>

\* the definite arrays whose images the authenticator may hold
StoredArrays ==
    {cbor_new_definite_array(q) : q \in {<<>>, <<ElemK1>>, <<ElemNoSize, ElemK1>>}}

\* C13: largeblob_array_load strips exactly the trailing 16 bytes, so that the
\* image serialize(A) followed by its digest loads as A for every definite
\* array A, the empty one included, and the operation works on A
C13_LoadStripsDigest ==
    (call.op # "none" /\ ValidCall(call) /\ FetchComplete /\ pc = "done") =>
        \A A \in StoredArrays :
            buf = Image(cbor_serialize(A)) =>
                /\ largeblob_array_load(buf) = [ok |-> TRUE, item |-> A]
                /\ fetched = A

\* a get on a fresh authenticator: the 17-byte image of the empty array was
\* assembled and verified, and the load of it failed
C13_FreshRejected ==
    /\ pc = "done" /\ call.op = "get" /\ ValidCall(call) /\ FetchComplete
    /\ buf = ImageFresh /\ validate_largeblob_array(buf) = 0
    /\ ~largeblob_array_load(buf).ok
    /\ ret = FIDO_ERR_INTERNAL

\* the events of kind k in tr, in order
RECURSIVE EventsOf(_, _)
EventsOf(tr, k) ==
    IF tr = <<>> THEN <<>>
    ELSE (IF Head(tr).k = k THEN <<Head(tr)>> ELSE <<>>) \o EventsOf(Tail(tr), k)

\* C14: the fetcher reads at offsets 0, chunk, 2 chunk, ... with a count of
\* chunk each, stops after the first reply shorter than chunk (an empty one when
\* the N stored bytes are a multiple of chunk), so makes N div chunk + 1 read
\* rounds, and has then assembled exactly the N stored bytes
C14_FetchRounds ==
    LET tx == EventsOf(trace, "rd_tx")
        rx == EventsOf(trace, "rd_rx")
    IN  /\ \A i \in 1..Len(tx) : tx[i].off = (i - 1) * maxlen /\ tx[i].len = maxlen
        /\ \A i \in 1..Len(rx) :
              (rx[i].st = "ok" /\ i < Len(rx)) => rx[i].len = maxlen
        /\ FetchComplete =>
              /\ pc \notin {"get_tx", "get_rx"}
              /\ Len(tx) = (Len(dev0) \div maxlen) + 1
              /\ Len(rx) = Len(tx)
              /\ rx[Len(rx)].len = Len(dev0) % maxlen
              /\ buf = dev0

\* an image of one whole chunk has been fetched: the second reply was empty
C14_Witness ==
    /\ FetchComplete /\ maxlen = 16 /\ Len(dev0) = 16
    /\ Len(EventsOf(trace, "rd_rx")) = 2
    /\ EventsOf(trace, "rd_rx")[1].len = 16
    /\ EventsOf(trace, "rd_rx")[2].len = 0
    /\ buf = dev0

\* an image that ends inside a chunk has been fetched in several rounds
C14_PartialSeen ==
    /\ FetchComplete /\ maxlen = 16 /\ Len(dev0) % 16 # 0
    /\ Len(EventsOf(trace, "rd_tx")) >= 4
    /\ buf = dev0

\* the smallest 0-based index from i on whose element, decoded on its own,
\* opens under key; -1 when there is none
RECURSIVE FirstOpening(_, _, _)
FirstOpening(s, key, i) ==
    IF i >= Len(s) THEN -1
    ELSE IF OpensAlone(s[i + 1], <<key>>) THEN i
    ELSE FirstOpening(s, key, i + 1)

\* the plaintext of element e under key
PlainOf(e, key) ==
    fido_uncompress(largeblob_pt(largeblob_decode(largeblob_new, e).blob, key).pt,
                    largeblob_decode(largeblob_new, e).blob.sz).out

\* C15: largeblob_array_find returns the smallest index whose element decodes
\* and opens under the key, passing over every element that fails to decode or
\* to open without an error and without a decoded field of it reaching a later
\* element; it returns not-found exactly when no element decodes and opens
C15_FirstOpening ==
    (pc = "done" /\ call.op = "find") =>
        LET key == call.key.bytes
            f == largeblob_array_find(TRUE, key, fetched)
            want == FirstOpening(fetched.c, key, 0)
        IN  /\ ret = f.r
            /\ (want = -1) <=> (f.r = FIDO_ERR_NOTFOUND)
            /\ want # -1 =>
                  /\ f.r = FIDO_OK
                  /\ f.index = want
                  /\ out_blob = PlainOf(fetched.c[want + 1], key)

\* a search under K1 of a map with the ciphertext of K1's element only followed
\* by a map with its nonce and origSize only has found nothing
C15_Witness ==
    /\ pc = "done" /\ call.op = "find" /\ call.key.bytes = K1
    /\ fetched.c = <<ElemCtOnly, ElemNoCt>>
    /\ ret = FIDO_ERR_NOTFOUND

\* a search has passed over an element of another key and found the second
C15_SecondFound ==
    /\ pc = "done" /\ call.op = "find" /\ call.key.bytes = K1
    /\ fetched.c = <<ElemK2, ElemK1>>
    /\ ret = FIDO_OK /\ out_blob = P1
    /\ largeblob_array_find(TRUE, K1, fetched).index = 1

\* C16: the chunk length is min(M, cap) - 64 for the advertised maximum message
\* size M, and 0, never negative, when min(M, cap) <= 64; with a chunk length
\* of 0 get, put and remove fail with FIDO_ERR_INTERNAL and no read or write
\* fragment is transmitted
C16_ChunkLength ==
    /\ maxlen = (IF Min(maxmsgsize, 2048) <= 64 THEN 0 ELSE Min(maxmsgsize, 2048) - 64)
    /\ maxlen >= 0
    /\ (maxlen = 0 /\ call.op # "none" /\ ValidCall(call)) =>
          /\ pc = "done"
          /\ ret = FIDO_ERR_INTERNAL
          /\ trace = <<>>
          /\ dev_bytes = dev0

\* a put on an authenticator that advertises 32 bytes has failed at once
C16_Witness ==
    /\ maxmsgsize = 32 /\ maxlen = 0
    /\ pc = "done" /\ call.op = "put" /\ ValidCall(call)
    /\ ret = FIDO_ERR_INTERNAL /\ trace = <<>>

\* a remove on an authenticator that advertises more than the cap has written
\* in chunks of 1984 bytes
C16_CapSeen ==
    /\ maxmsgsize = 3000 /\ maxlen = 1984
    /\ pc = "done" /\ call.op = "remove" /\ ret = FIDO_OK
    /\ \E i \in 1..Len(trace) : trace[i].k = "rd_tx" /\ trace[i].len = 1984

\* the positions in the trace of the events of kind k with status st
At(k, st) == {i \in 1..Len(trace) : trace[i].k = k /\ trace[i].st = st}

\* C17: when the authenticator requires a token the writer performs ECDH and
\* then the token request before it transmits a write fragment, and every write
\* fragment, the trailer included, carries pinAuth and pinProtocol; when no
\* token is needed no fragment carries them; when ECDH or the token request
\* fails, its status is returned and no write fragment is transmitted
C17_WriteAuthorization ==
    LET wr == {i \in 1..Len(trace) : trace[i].k = "wr_tx"}
    IN  /\ \A i \in wr : trace[i].auth = uv_required
        /\ uv_required =>
              \A i \in wr : \E e \in At("ecdh", "ok"), g \in At("token", "ok") : e < g /\ g < i
        /\ ~uv_required => \A i \in 1..Len(trace) : trace[i].k \notin {"ecdh", "token"}
        /\ At("ecdh", "fail") # {} => wr = {} /\ pc = "done" /\ ret = FIDO_ERR_RX
        /\ At("token", "fail") # {} => wr = {} /\ pc = "done" /\ ret = FIDO_ERR_PIN_INVALID

\* a write of several fragments under a token has succeeded: the trailer, the
\* last of them, carried the authorization
C17_Witness ==
    /\ uv_required /\ WriteSucceeded /\ TrailerSent
    /\ Len(Transmits(trace)) >= 3
    /\ Transmits(trace)[Len(Transmits(trace))].off = Len(cbor)
    /\ Transmits(trace)[Len(Transmits(trace))].auth
    /\ At("ecdh", "ok") # {} /\ At("token", "ok") # {}

\* a put has returned the status of the refused token request
C17_TokenRefused ==
    /\ pc = "done" /\ call.op = "put" /\ ret = FIDO_ERR_PIN_INVALID
    /\ At("token", "fail") # {} /\ At("wr_tx", "ok") = {}
    /\ dev_bytes = dev0

\* a remove has returned the status of the failed key agreement
C17_EcdhFailed ==
    /\ pc = "done" /\ call.op = "remove" /\ ret = FIDO_ERR_RX
    /\ At("ecdh", "fail") # {}

\* a write without a token has succeeded
C17_NoTokenSeen ==
    /\ ~uv_required /\ WriteSucceeded /\ At("wr_tx", "ok") # {}

\* C18: the buffer prepare_hmac builds depends on the offset and the fragment
\* only: 70 bytes, 32 of 0xff, the largeBlob command byte, a zero byte, the
\* offset as 4 bytes least significant first, SHA-256 of the fragment; a second
\* call on the same input gives the same bytes; an offset above 2^32 - 1 and an
\* empty fragment are rejected
C18_HmacInput ==
    (pc = "done" /\ call.op = "hmac") =>
        /\ IF (\E i \in 5..8 : offset[i] # 0) \/ buf = <<>>
           THEN ret = -1 /\ out_blob = <<>>
           ELSE /\ ret = 0
                /\ Len(out_blob) = 70
                /\ \A i \in 1..32 : out_blob[i] = 255
                /\ out_blob[33] = 12
                /\ out_blob[34] = 0
                /\ SubSeq(out_blob, 35, 38) = SubSeq(offset, 1, 4)
                /\ SubSeq(out_blob, 39, 70) = SHA256(buf)
        /\ prev.op = "hmac" => (prev.key = ret /\ prev.pt = out_blob)

\* the buffer for offset 66000 = 0x000101d0 has been built twice
C18_Witness ==
    /\ pc = "done" /\ call.op = "hmac" /\ nops = 2 /\ prev.op = "hmac"
    /\ offset = SizeT(66000) /\ buf = P1
    /\ ret = 0 /\ Len(out_blob) = 70
    /\ SubSeq(out_blob, 33, 38) = <<12, 0, 208, 1, 1, 0>>
    /\ out_blob = prev.pt

\* the offset 2^32 + 16 has been rejected
C18_WideRejected ==
    /\ pc = "done" /\ call.op = "hmac"
    /\ offset = <<16, 0, 0, 0, 1, 0, 0, 0>> /\ buf = P1
    /\ ret = -1

\* an empty fragment has been rejected
C18_EmptyRejected ==
    /\ pc = "done" /\ call.op = "hmac"
    /\ offset = SizeT(16) /\ buf = <<>>
    /\ ret = -1

\* the values of the entries of map it whose key is the 8-bit unsigned k
ValuesAt(it, k) ==
    {it.c[2 * i] : i \in {j \in 1..(Len(it.c) \div 2) :
                              /\ it.c[2 * j - 1].t = "uint"
                              /\ it.c[2 * j - 1].w = 8
                              /\ it.c[2 * j - 1].n = k}}

\* a definite map with a ct of at least 16 bytes, a nonce of 12 bytes and a
\* non-zero origSize
Conforms(it) ==
    /\ it.t = "map" /\ it.d
    /\ ValuesAt(it, 1) # {} /\ \A v \in ValuesAt(it, 1) : v.t = "bstr" /\ Len(v.b) >= 16
    /\ ValuesAt(it, 2) # {} /\ \A v \in ValuesAt(it, 2) : v.t = "bstr" /\ Len(v.b) = 12
    /\ ValuesAt(it, 3) # {} /\ \A v \in ValuesAt(it, 3) : v.t = "uint" /\ v.n # 0

\* C19: largeblob_decode accepts an item exactly when it is a definite map with
\* ct present and at least 16 bytes long, nonce present and 12 bytes long and
\* origSize present and non-zero; entries under other keys and under keys that
\* are not 8-bit unsigned integers are passed over; a missing or out-of-range
\* field makes it fail
C19_DecodeAccepts ==
    pc = "decoded" => ((ret = 0) <=> Conforms(item))

\* the same for the calls largeblob_array_find makes
C19_FindDecodes ==
    (pc = "decoded" /\ call.op = "find") => ((ret = 0) <=> Conforms(item))

\* in the loop of remove_unknown_blobs a map without a ciphertext has been
\* accepted after a map with a ciphertext only
C19_AcceptedWithoutCt ==
    /\ pc = "decoded" /\ call.op = "trim"
    /\ fetched.c = <<ElemCtOnly, ElemNoCt>>
    /\ item = ElemNoCt /\ ret = 0

\* an element with an entry under a 16-bit key has been accepted
C19_ExtraIgnored ==
    /\ pc = "decoded" /\ Len(item.c) = 8 /\ item.c[1] = WideKey /\ ret = 0

\* what the mutator of the running call makes of the fetched array: [r, arr]
MutatorOutcome ==
    IF call.op = "put" THEN largeblob_array_insert(fetched, call.key.bytes, item)
    ELSE largeblob_array_remove(fetched, call.key.bytes)

\* C20: a put or a remove whose fetch and whose mutation of the array succeed
\* transmits a complete write of the resulting array, every body fragment and
\* the trailer, also when the array is logically unchanged: a put of the blob
\* already stored, a remove of a key that opens no element
C20_NoShortCircuit ==
    (/\ pc = "done" /\ call.op \in {"put", "remove"} /\ ValidCall(call)
     /\ fetched # NoItem /\ ~Faulty(trace)) =>
        (MutatorOutcome.r = FIDO_OK =>
            /\ ret = FIDO_OK
            /\ arr = MutatorOutcome.arr
            /\ TrailerSent
            /\ Concat([i \in 1..Len(Transmits(trace)) |-> Transmits(trace)[i].set])
                  = Image(cbor_serialize(arr))
            /\ dev_bytes = Image(cbor_serialize(arr)))

\* a remove of a key that opens no element of the stored array has written the
\* array back as it was
C20_Witness ==
    /\ pc = "done" /\ call.op = "remove" /\ call.key.bytes = K2 /\ ret = FIDO_OK
    /\ dev0 = ImagePadded
    /\ fetched.c = <<ElemNoSize, ElemK1>>
    /\ arr = fetched
    /\ TrailerSent
    /\ dev_bytes = Image(cbor_serialize(fetched))

\* a put of the blob already stored under the key, sealed with another nonce,
\* has written the array
C20_SamePutSeen ==
    /\ pc = "done" /\ call.op = "put" /\ ret = FIDO_OK
    /\ dev0 = ImagePadded
    /\ call.key.bytes = K1 /\ call.blob.bytes = P1 /\ call.nonce = N2
    /\ fetched.c = <<ElemNoSize, ElemK1>>
    /\ arr.c = <<ElemNoSize, item>>
    /\ TrailerSent
    /\ dev_bytes = Image(cbor_serialize(arr))

\* a put of the blob already stored, sealed with the nonce of the stored
\* element, has written the same array again
C20_IdenticalSeen ==
    /\ pc = "done" /\ call.op = "put" /\ ret = FIDO_OK
    /\ fetched.c = <<ElemNoSize, ElemK1>>
    /\ arr = fetched
    /\ TrailerSent

\* C21: in every write exactly one fragment carries totalSize: the one at
\* offset 0, with the value |B| + 16; no later body fragment and never the
\* trailer carries it, as the serialized body is never empty and the trailer
\* is sent at an offset greater than 0
C21_TotalSizeOnce ==
    LET t == Transmits(trace)
    IN  t # <<>> =>
            /\ cbor # <<>>
            /\ t[1].off = 0
            /\ t[1].total = Len(cbor) + 16
            /\ \A i \in 2..Len(t) : t[i].off > 0 /\ t[i].total = -1
            /\ \A i \in 1..Len(t) : t[i].off = Len(cbor) => (i > 1 /\ t[i].total = -1)
            /\ Cardinality({i \in 1..Len(t) : t[i].total # -1}) = 1

\* a write of several body fragments and the trailer has succeeded
C21_Witness ==
    /\ WriteSucceeded /\ TrailerSent /\ maxlen = 16
    /\ Len(Transmits(trace)) >= 4
    /\ Transmits(trace)[1].total = Len(cbor) + 16
    /\ Transmits(trace)[2].total = -1
    /\ Transmits(trace)[Len(Transmits(trace))].off = Len(cbor)
    /\ Transmits(trace)[Len(Transmits(trace))].total = -1

\* a write of one body fragment and the trailer has succeeded
C21_SingleBodySeen ==
    /\ WriteSucceeded /\ TrailerSent /\ maxlen > 16
    /\ Len(Transmits(trace)) = 2
    /\ Transmits(trace)[2].off = Len(cbor) /\ Transmits(trace)[2].total = -1

\* the number of bytes the replies before position i of the trace delivered
RECURSIVE Appended(_)
Appended(i) ==
    IF i <= 1 THEN 0
    ELSE Appended(i - 1)
           + (IF trace[i - 1].k = "rd_rx" /\ trace[i - 1].st = "ok" THEN trace[i - 1].len ELSE 0)

\* C22: whatever the lengths of the replies, the fetch loop issues another read
\* exactly when the reply before was not short (received >= requested) and
\* stops at the first reply with received < requested; the offset of every
\* request is the number of bytes appended so far, its count the chunk length,
\* and requests and replies alternate
C22_FetchContinuation ==
    /\ \A i \in 1..Len(trace) :
          /\ trace[i].k = (IF i % 2 = 1 THEN "rd_tx" ELSE "rd_rx")
          /\ trace[i].k = "rd_tx" => (trace[i].off = Appended(i) /\ trace[i].len = maxlen)
          /\ (trace[i].k = "rd_rx" /\ trace[i].st = "ok" /\ i < Len(trace)) =>
                trace[i].len >= maxlen
    /\ (trace # <<>> /\ trace[Len(trace)].k = "rd_rx" /\ trace[Len(trace)].st = "ok") =>
          IF trace[Len(trace)].len >= maxlen THEN pc = "get_tx"
          ELSE pc \notin {"get_tx", "get_rx"}

\* a reply of 17 bytes to a request for 16 has ended the fetch
C22_LongReplyStops ==
    /\ maxlen = 16 /\ Len(trace) = 2
    /\ trace[2].k = "rd_rx" /\ trace[2].st = "ok" /\ trace[2].len = 17
    /\ pc = "done" /\ Len(buf) = 17

\* what the loop does: another round exactly after a reply of the length asked
\* for
C22_EqualContinues ==
    /\ \A i \in 1..Len(trace) :
          /\ trace[i].k = (IF i % 2 = 1 THEN "rd_tx" ELSE "rd_rx")
          /\ trace[i].k = "rd_tx" => (trace[i].off = Appended(i) /\ trace[i].len = maxlen)
          /\ (trace[i].k = "rd_rx" /\ trace[i].st = "ok" /\ i < Len(trace)) =>
                trace[i].len = maxlen
    /\ (trace # <<>> /\ trace[Len(trace)].k = "rd_rx" /\ trace[Len(trace)].st = "ok") =>
          IF trace[Len(trace)].len = maxlen THEN pc = "get_tx"
          ELSE pc \notin {"get_tx", "get_rx"}

\* the positions in the trace of the steps of the writer
WriterSteps == {i \in 1..Len(trace) : trace[i].k \in {"ecdh", "token", "wr_tx", "wr_rx"}}

\* C23: a get transmits no write fragment and acquires no token, so the stored
\* bytes are the same after any get, whatever it returns; in put and remove no
\* write fragment is transmitted before the fetch has completed, so a failed
\* fetch or a failed mutation leaves the stored bytes as they were
C23_ReadsPrecedeWrites ==
    /\ call.op = "get" =>
          /\ WriterSteps = {}
          /\ ~token
          /\ dev_bytes = dev0 /\ dev_wr = <<>> /\ dev_total = 0
    /\ \A i \in WriterSteps :
          /\ call.op \in {"put", "remove"}
          /\ fetched # NoItem
          /\ \E j \in 1..(i - 1) :
                trace[j].k = "rd_rx" /\ trace[j].st = "ok" /\ trace[j].len < maxlen
          /\ \A j \in 1..Len(trace) : trace[j].k \in {"rd_tx", "rd_rx"} => j < i
    /\ (pc = "done" /\ call.op \in {"put", "remove"}
          /\ (fetched = NoItem \/ MutatorOutcome.r # FIDO_OK)) =>
          /\ At("wr_tx", "ok") = {} /\ At("wr_tx", "fail") = {}
          /\ dev_bytes = dev0

\* a get has found its blob on an authenticator that holds two elements, and
\* the authenticator holds what it held
C23_Witness ==
    /\ pc = "done" /\ call.op = "get" /\ ret = FIDO_OK /\ out_blob = P1
    /\ dev0 = ImagePadded /\ dev_bytes = ImagePadded
    /\ trace # <<>> /\ WriterSteps = {}

\* a put whose fetch failed in its second round has returned
C23_FetchFailedSeen ==
    /\ pc = "done" /\ call.op = "put" /\ ValidCall(call) /\ fetched = NoItem
    /\ Len(trace) >= 4 /\ trace[Len(trace)].st = "fail"
    /\ dev_bytes = dev0 /\ dev0 = ImageOne

\* a remove is writing after its fetch
C23_WriteAfterFetchSeen ==
    /\ call.op = "remove" /\ At("wr_tx", "ok") # {}
    /\ trace[1].k = "rd_tx"

=============================================================================
